---- MODULE Spec2Model ----
(***************************************************************************)
(* The request-interception pipeline of the debugging reverse proxy:       *)
(* session store, tenant resolution, URL rewriting, capture.               *)
(*                                                                         *)
(* The source tree holds three successive revisions of the proxy filters   *)
(* and two of the request wrapper.  The model keeps them apart in `rev`:   *)
(*   "early"   src/unnamed/part_002:1-200   + src/unnamed/part_003         *)
(*   "api"     src/helpers/helpers.go       + src/unnamed/part_003         *)
(*   "project" src/unnamed/part_002:202-492 + src/request/request.go       *)
(*                                                                         *)
(* Go strings are sequences of one-character strings ("/a/x" is            *)
(* <<"/","a","/","x">>); header values that are only compared or searched  *)
(* for a word are sequences of words (<<"true">>).                         *)
(***************************************************************************)
EXTENDS Integers, Sequences, FiniteSets, TLC

\* The engine serves each connection on a goroutine of its own; a "slot" is
\* one such goroutine, running the pipeline of one session at a time.
VARIABLES
    rev,          \* which revision of the filters / request wrapper runs
    running,      \* tenant store: environment id -> running flag
    toggles,      \* number of changes made to the tenant store so far
    cache,        \* request.cache: the package-level LRU, key -> [kind, rec]
    requestData,  \* helpers.requestData: the session ids that have an entry
    writing,      \* slots in the middle of a write to requestData
    crashed,      \* the Go runtime ended the process (concurrent map access)
    sess,         \* the engine's session counter (ctx.Session of the last one)
    sid,          \* per slot: ctx.Session of the pipeline it runs (0: none)
    pc,           \* per slot: the next hook the engine invokes
    req,          \* per slot: the live *http.Request (ctx.Req)
    ctx,          \* per slot: the *request.BaseRequest made by SetupRequest
    resp,         \* per slot: the *http.Response (IsNil for nil)
    task,         \* per slot: the detached capture goroutine
    saved,        \* per slot: records dbConnection.Create stored
    events,       \* per slot: "request.create" broadcasts
    hist,         \* per slot: observations used to state the properties
    call          \* a helper function called on its own: inputs and result

vars == <<rev, running, toggles, cache, requestData, writing, crashed, sess,
          sid, pc, req, ctx, resp, task, saved, events, hist, call>>

-----------------------------------------------------------------------------
(* Bounds *)

MaxSessions == 2    \* sessions the engine accepts in one run
MaxToggles == 1     \* changes made to the tenant store in one run
MaxSlug == 2        \* characters of a slug given to urlWithoutEnvironment
MaxRest == 2        \* characters of the path after the slug and its "/"
MaxUrl == 5         \* characters of a URL given to slugFromUrl
MaxCalls == 3       \* hooks called on the session store on its own
MaxCallers == 2     \* goroutines using the user-data bags
MaxPath == 4        \* characters of a path given to CleanRequest

Slots == {1, 2}
Revisions == {"early", "api", "project"}

-----------------------------------------------------------------------------
(* Go strings *)

Empty == <<>>
Slash == <<"/">>

\* strings.Index: position of the first occurrence of sub in s, 0 when none
\* (1-based; the empty string occurs at the beginning).
Least(hits) ==
    IF hits = {} THEN 0 ELSE CHOOSE i \in hits : \A j \in hits : i <= j

Index(s, sub) ==
    Least({i \in 1..(Len(s) - Len(sub) + 1) :
              SubSeq(s, i, i + Len(sub) - 1) = sub})

\* strings.Contains
Contains(s, sub) == Index(s, sub) # 0

\* strings.Replace(s, old, new, 1)
ReplaceAt(s, i, old, new) ==
    IF i = 0 THEN s
    ELSE SubSeq(s, 1, i - 1) \o new \o SubSeq(s, i + Len(old), Len(s))

ReplaceFirst(s, old, new) == ReplaceAt(s, Index(s, old), old, new)

\* strings.HasPrefix / strings.TrimPrefix
HasPrefix(s, p) == Len(p) <= Len(s) /\ SubSeq(s, 1, Len(p)) = p
TrimPrefix(s, p) == IF HasPrefix(s, p) THEN SubSeq(s, Len(p) + 1, Len(s)) ELSE s

\* strings.Split(s, "/"): the pieces between the slashes
RECURSIVE Split(_)
SplitAt(s, i) ==
    IF i = 0 THEN <<s>>
    ELSE <<SubSeq(s, 1, i - 1)>> \o Split(SubSeq(s, i + 1, Len(s)))

Split(s) == SplitAt(s, Index(s, Slash))

-----------------------------------------------------------------------------
(* Tenant store (the gorm connection) *)

\* models.Environment as the filters read it.  The zero value has Id = "".
EmptyEnv == [Id |-> Empty, Slug |-> Empty, Url |-> Empty, Ssl |-> FALSE,
             ApiId |-> Empty, ProjectId |-> Empty]

\* The environments table, in primary-key order.
EnvTable ==
    << [Id |-> <<"1">>, Slug |-> <<"a">>, Url |-> <<"h">>, Ssl |-> FALSE,
        ApiId |-> <<"p">>, ProjectId |-> <<"p">>],
       [Id |-> <<"2">>, Slug |-> <<"b">>, Url |-> <<"g">>, Ssl |-> TRUE,
        ApiId |-> Empty, ProjectId |-> Empty] >>

EnvIds == {EnvTable[i].Id : i \in DOMAIN EnvTable}

\* models.Api / models.Project: fetched by id, only the id is read.
EmptyApi == [Id |-> Empty]
ApiIds == {<<"p">>, <<"q">>}

\* db.Where(cond).First(&env): the first, in key order, of the rows that
\* match; the zero value (and result.Error set) when no row does.
First(rows) ==
    IF rows = {} THEN EmptyEnv
    ELSE EnvTable[CHOOSE i \in rows : \A j \in rows : i <= j]

\* Where("slug = ? AND running = ?", identifier, true)
EnvWhereSlug(identifier) ==
    First({i \in DOMAIN EnvTable :
              EnvTable[i].Slug = identifier /\ running[EnvTable[i].Id]})

\* Where("url = ? AND running = ?", identifier, true)
EnvWhereUrl(identifier) ==
    First({i \in DOMAIN EnvTable :
              EnvTable[i].Url = identifier /\ running[EnvTable[i].Id]})

\* Where("id = ?", identifier).First(&api)
ApiWhereId(identifier) ==
    IF identifier \in ApiIds THEN [Id |-> identifier] ELSE EmptyApi

\* routers.CurrentUser(header, db): the user the token belongs to.
CurrentUser(header) ==
    IF header = <<"t">> THEN [Id |-> <<"u">>] ELSE [Id |-> Empty]

-----------------------------------------------------------------------------
(* net/url and net/http values *)

\* http.Header: name -> value, NoHeader when the name is not in the map.
NoHeader == <<"(absent)">>

\* Header.Get: "" when the name is absent.
Get(h, name) == IF h[name] = NoHeader THEN Empty ELSE h[name]

\* Header.Set / Header.Del
Set(h, name, value) == [h EXCEPT ![name] = value]
Del(h, name) == [h EXCEPT ![name] = NoHeader]

\* (*url.URL).RequestURI: the path ("/" when empty), then "?" and the query
\* when there is one.
RequestURI(u) ==
    (IF u.Path = Empty THEN Slash ELSE u.Path)
    \o (IF u.RawQuery = Empty THEN Empty ELSE <<"?">> \o u.RawQuery)

\* url.Parse of a target such as "http://" + host.  A target is written
\* <<scheme, "://">> \o host; without "://" the text is a relative path and
\* the URL has neither scheme nor host; a first path segment holding ":"
\* is an error and the result is nil.
Parse(target) ==
    IF Len(target) >= 2 /\ target[2] = "://"
    THEN [IsNil |-> FALSE, Scheme |-> <<target[1]>>,
          Host |-> SubSeq(target, 3, Len(target))]
    ELSE IF Contains(target, <<":">>)
    THEN [IsNil |-> TRUE, Scheme |-> Empty, Host |-> Empty]
    ELSE [IsNil |-> FALSE, Scheme |-> Empty, Host |-> Empty]

-----------------------------------------------------------------------------
(* Pure helpers of the filters and of the request wrapper *)

\* slugFromUrl without the test on the first character: always parts[0].
slugFromUrlFirstPart(url) == Split(url)[1]

\* slugFromUrl: the environment identifier of a request URI (never empty).
slugFromUrl(url) == Split(url)[IF url[1] = "/" THEN 2 ELSE 1]

\* The slash handling of urlWithoutEnvironment without its TrimPrefix.
CleanSlashesKept(newUrl) == IF Len(newUrl) = 0 THEN Slash ELSE newUrl

\* urlWithoutEnvironment: the path with the environment's slug removed.
CleanSlashes(newUrl) ==
    IF Len(newUrl) > 1 /\ newUrl[2] = "/" THEN TrimPrefix(newUrl, Slash)
    ELSE IF Len(newUrl) = 0 THEN Slash
    ELSE newUrl

urlWithoutEnvironment(env, url) ==
    CleanSlashes(ReplaceFirst(url, env.Slug, Empty))

-----------------------------------------------------------------------------
(* The request wrapper (package request) *)

\* The request wrapper of part_003 goes through the LRU for environments and
\* reads control headers from the live request; request.go does neither.
CachedLookups == rev \in {"early", "api"}

\* cache.Add(key, value).  The LRU holds 128 entries; the model never holds
\* that many keys, so nothing is evicted.
CacheAdd(c, key, kind, rec) ==
    [k \in DOMAIN c \cup {key} |->
        IF k = key THEN [kind |-> kind, rec |-> rec] ELSE c[k]]

\* NewBaseRequest: the wrapper of request r (ReqHeaders is a copy of the
\* headers taken now; env, api/project and user start nil).
NewBaseRequest(r) ==
    [ReqHeaders |-> r.Header,
     Skip       |-> FALSE,
     env        |-> [IsNil |-> TRUE, val |-> EmptyEnv],
     tenant     |-> [IsNil |-> TRUE, val |-> EmptyApi],
     user       |-> [IsNil |-> TRUE, val |-> [Id |-> Empty]]]

\* requestEnvFromPath, request.go: straight to the store.
requestEnvFromPath(r, c) ==
    [env |-> EnvWhereSlug(slugFromUrl(RequestURI(r.URL))), cache |-> c,
     fault |-> FALSE]

\* cache.Get(identifier), then existing.(models.Environment), which panics
\* on a value of another type; on a miss the lookup's result env is stored,
\* found or not, and returned.
ThroughCache(identifier, c, env) ==
    IF identifier \in DOMAIN c
    THEN IF c[identifier].kind = "Environment"
         THEN [env |-> c[identifier].rec, cache |-> c, fault |-> FALSE]
         ELSE [env |-> EmptyEnv, cache |-> c, fault |-> TRUE]
    ELSE [env |-> env, fault |-> FALSE,
          cache |-> CacheAdd(c, identifier, "Environment", env)]

\* requestEnvFromPath, part_003: through the LRU.
requestEnvFromPathCached(r, c) ==
    ThroughCache(slugFromUrl(RequestURI(r.URL)), c,
                 EnvWhereSlug(slugFromUrl(RequestURI(r.URL))))

\* requestEnvFromHost, request.go: keyed by the URL's host.
requestEnvFromHost(r, c) ==
    [env |-> EnvWhereUrl(r.URL.Host), cache |-> c, fault |-> FALSE]

\* requestEnvFromHost, part_003.
requestEnvFromHostCached(r, c) ==
    ThroughCache(r.URL.Host, c, EnvWhereUrl(r.URL.Host))

\* One resolution ran and gave x.
Counted(x) ==
    [env |-> x.env, cache |-> x.cache, fault |-> x.fault, lookups |-> 1]

\* if env.Id == "" { env, err = br.requestEnvFromHost() }: p is what the
\* path gave; the host is asked only when that is the zero value.
OrFromHost(r, p) ==
    IF p.fault \/ p.env.Id # Empty THEN Counted(p)
    ELSE IF CachedLookups THEN Counted(requestEnvFromHostCached(r, p.cache))
    ELSE Counted(requestEnvFromHost(r, p.cache))

\* GetEnvironment of wrapper br over live request r with LRU content c.
\* The result carries the environment, the LRU afterwards, whether the call
\* panicked, and how many resolutions it ran (0 when br.env answered).
GetEnvironment(br, r, c) ==
    IF ~br.env.IsNil
    THEN [env |-> br.env.val, cache |-> c, fault |-> FALSE, lookups |-> 0]
    ELSE IF CachedLookups THEN OrFromHost(r, requestEnvFromPathCached(r, c))
    ELSE OrFromHost(r, requestEnvFromPath(r, c))

\* The headers the wrapper reads control headers from: the live request in
\* part_003, the snapshot in request.go.
ControlHeaders(br, r) == IF CachedLookups THEN r.Header ELSE br.ReqHeaders

\* GetOrigin without an override header: the upstream of environment e.env,
\* else the request's own URL (own = TRUE: u is br.HttpRequest.URL itself).
OriginOf(r, e) ==
    IF e.fault
    THEN [u |-> Parse(Empty), own |-> FALSE, cache |-> e.cache,
          fault |-> TRUE, lookups |-> e.lookups, envs |-> {}]
    ELSE IF e.env.Slug = Empty
    THEN [u |-> [IsNil |-> FALSE, Scheme |-> r.URL.Scheme,
                 Host |-> r.URL.Host],
          own |-> TRUE, cache |-> e.cache, fault |-> FALSE,
          lookups |-> e.lookups, envs |-> {e.env}]
    ELSE [u |-> Parse((IF e.env.Ssl THEN <<"https", "://">>
                       ELSE <<"http", "://">>) \o e.env.Url),
          own |-> FALSE, cache |-> e.cache, fault |-> FALSE,
          lookups |-> e.lookups, envs |-> {e.env}]

\* GetOrigin with the first two sources in the other order: the resolved
\* environment's upstream wins over the override header.
GetOriginEnvironmentFirst(br, r, c) ==
    IF GetEnvironment(br, r, c).env.Slug # Empty
       \/ Get(ControlHeaders(br, r), "X-StopLight-Url-Host") = Empty
    THEN OriginOf(r, GetEnvironment(br, r, c))
    ELSE [u |-> Parse(Get(ControlHeaders(br, r), "X-StopLight-Url-Host")),
          own |-> FALSE, cache |-> c, fault |-> FALSE, lookups |-> 0,
          envs |-> {}]

\* GetOrigin: the URL the request is sent to; envs holds what the
\* GetEnvironment call made on the way returned.
GetOrigin(br, r, c) ==
    IF Get(ControlHeaders(br, r), "X-StopLight-Url-Host") = Empty
    THEN OriginOf(r, GetEnvironment(br, r, c))
    ELSE [u |-> Parse(Get(ControlHeaders(br, r), "X-StopLight-Url-Host")),
          own |-> FALSE, cache |-> c, fault |-> FALSE, lookups |-> 0,
          envs |-> {}]

\* The LRU-then-store lookup shared by GetApi and GetProject.
TenantById(identifier, kind, c) ==
    IF identifier = Empty
    THEN [val |-> EmptyApi, cache |-> c, fault |-> FALSE, lookups |-> 0]
    ELSE IF identifier \in DOMAIN c
    THEN IF c[identifier].kind = kind
         THEN [val |-> c[identifier].rec, cache |-> c, fault |-> FALSE,
               lookups |-> 1]
         ELSE [val |-> EmptyApi, cache |-> c, fault |-> TRUE, lookups |-> 1]
    ELSE [val |-> ApiWhereId(identifier), fault |-> FALSE, lookups |-> 1,
          cache |-> CacheAdd(c, identifier, kind, ApiWhereId(identifier))]

\* The tenant t was looked up after the environment lookup e.
AfterEnvironment(t, e) ==
    [val |-> t.val, cache |-> t.cache, fault |-> t.fault,
     lookups |-> t.lookups, envLookups |-> e.lookups, envs |-> {e.env}]

\* The environment lookup of GetApi / GetProject panicked.
EnvironmentFault(e) ==
    [val |-> EmptyApi, cache |-> e.cache, fault |-> TRUE, lookups |-> 0,
     envLookups |-> e.lookups, envs |-> {}]

\* GetApi reading the X-StopLight-Api header before the environment's id.
ApiOfHeaderFirst(r, e) ==
    IF e.fault THEN EnvironmentFault(e)
    ELSE IF Get(r.Header, "X-StopLight-Api") # Empty
    THEN AfterEnvironment(TenantById(Get(r.Header, "X-StopLight-Api"), "Api",
                                     e.cache), e)
    ELSE AfterEnvironment(TenantById(e.env.ApiId, "Api", e.cache), e)

\* GetApi after its GetEnvironment call gave e.
ApiOf(r, e) ==
    IF e.fault THEN EnvironmentFault(e)
    ELSE IF e.env.ApiId # Empty
    THEN AfterEnvironment(TenantById(e.env.ApiId, "Api", e.cache), e)
    ELSE AfterEnvironment(TenantById(Get(r.Header, "X-StopLight-Api"), "Api",
                                     e.cache), e)

\* GetApi, part_003: the environment's api id, else the live request's
\* X-StopLight-Api header.
GetApi(br, r, c) ==
    IF ~br.tenant.IsNil
    THEN [val |-> br.tenant.val, cache |-> c, fault |-> FALSE,
          lookups |-> 0, envLookups |-> 0, envs |-> {}]
    ELSE ApiOf(r, GetEnvironment(br, r, c))

\* GetProject without the header, after its GetEnvironment call gave e.
ProjectOf(e) ==
    IF e.fault THEN EnvironmentFault(e)
    ELSE AfterEnvironment(TenantById(e.env.ProjectId, "Project", e.cache), e)

\* GetProject with the header: no environment is resolved.
ProjectNamed(t) ==
    [val |-> t.val, cache |-> t.cache, fault |-> t.fault,
     lookups |-> t.lookups, envLookups |-> 0, envs |-> {}]

\* GetProject, request.go: the X-StopLight-Project header of the snapshot,
\* else the environment's project id.
GetProject(br, r, c) ==
    IF ~br.tenant.IsNil
    THEN [val |-> br.tenant.val, cache |-> c, fault |-> FALSE,
          lookups |-> 0, envLookups |-> 0, envs |-> {}]
    ELSE IF Get(br.ReqHeaders, "X-StopLight-Project") = Empty
    THEN ProjectOf(GetEnvironment(br, r, c))
    ELSE ProjectNamed(TenantById(Get(br.ReqHeaders, "X-StopLight-Project"),
                                 "Project", c))

\* GetUser, request.go: resolved once from the snapshot's authorization
\* header and kept on the wrapper.
GetUser(br) ==
    IF br.user.IsNil
    THEN CurrentUser(Get(br.ReqHeaders, "X-StopLight-Authorization"))
    ELSE br.user.val

-----------------------------------------------------------------------------
(* Requests and responses *)

ReqHeaderNames ==
    {"X-StopLight-Url-Host", "X-StopLight-Api", "X-StopLight-Project",
     "X-StopLight-Ignore", "StopLight-Ignore", "X-StopLight-Dashboard",
     "X-StopLight-No-Context", "X-StopLight-Authorization",
     "X-Requested-With", "Accept", "Access-Control-Request-Headers",
     "Access-Control-Allow-Credentials", "Access-Control-Allow-Headers",
     "Access-Control-Allow-Methods", "Access-Control-Allow-Origin",
     "Access-Control-Expose-Headers", "StopLight-Request", "Host"}

RespHeaderNames ==
    {"Content-Type", "X-Forwarded-For", "X-StopLight-Request",
     "Access-Control-Allow-Credentials", "Access-Control-Allow-Headers",
     "Access-Control-Allow-Methods", "Access-Control-Allow-Origin",
     "Access-Control-Expose-Headers"}

\* A header map holding exactly the given name -> value pairs.
Headers(names, given) ==
    [n \in names |-> IF n \in DOMAIN given THEN given[n] ELSE NoHeader]

\* Header.Add: appends; Get keeps answering with the first value.
Add(h, name, value) == IF h[name] = NoHeader THEN Set(h, name, value) ELSE h

\* An *http.Request as the engine hands it to the first hook.  For a request
\* read off an intercepted TLS connection URL.Host is the CONNECT target
\* ("g:443") and Host the inner Host header ("g").
Request(method, scheme, urlHost, host, path, query, given) ==
    [Method     |-> method,
     URL        |-> [Scheme |-> scheme, Host |-> urlHost, Path |-> path,
                     RawQuery |-> query],
     Host       |-> host,
     Header     |-> Headers(ReqHeaderNames, given),
     RequestURI |-> path \o (IF query = Empty THEN Empty ELSE <<"?">> \o query),
     RemoteAddr |-> <<"c">>]

BlankRequest == Request("", Empty, Empty, Empty, Empty, Empty, <<>>)

Plain(method, path, query, given) ==
    Request(method, <<"http">>, <<"g">>, <<"g">>, path, query, given)
Tls(method, path, query, given) ==
    Request(method, <<"https">>, <<"g", ":443">>, <<"g">>, path, query, given)

True == <<"true">>
Override == [n \in {"X-StopLight-Url-Host"} |-> <<"http", "://", "o">>]
TenantHeaders == [n \in {"X-StopLight-Api", "X-StopLight-Project"} |-> <<"p">>]
Ignore == [n \in {"X-StopLight-Ignore"} |-> True]
IgnoreEarly == [n \in {"StopLight-Ignore"} |-> True]
Asking == [n \in {"Access-Control-Request-Headers"} |-> <<"X-Custom">>]

\* The requests clients send in the model.
Requests ==
    { Tls("GET", <<"/", "a", "/", "x">>, Empty, <<>>),
      Tls("GET", <<"/", "a", "/", "b">>, Empty, <<>>),
      Tls("GET", <<"/", "a">>, <<"x">>, <<>>),
      Tls("GET", <<"/", "x">>, Empty, <<>>),
      Plain("GET", <<"/", "x">>, Empty, <<>>),
      Plain("GET", <<"/", "/", "x">>, Empty, <<>>),
      Tls("GET", <<"/", "a", "/", "x">>, <<"x">>, Override),
      Tls("GET", <<"/", "x">>, Empty, Override),
      Tls("GET", <<"/", "b", "/", "x">>, Empty, TenantHeaders),
      Tls("GET", <<"/", "a", "/", "x">>, Empty, Ignore),
      Tls("GET", <<"/", "a", "/", "x">>, Empty, IgnoreEarly),
      Tls("OPTIONS", <<"/", "a", "/", "x">>, Empty, <<>>),
      Tls("OPTIONS", <<"/", "x">>, Empty, Asking) }

\* The requests of the runs in which two pipelines overlap.
FewRequests ==
    { Tls("GET", <<"/", "a", "/", "x">>, Empty, <<>>),
      Tls("OPTIONS", <<"/", "x">>, Empty, <<>>) }

\* An *http.Response; IsNil stands for the nil pointer.
Response(status, given, body) ==
    [IsNil |-> FALSE, StatusCode |-> status,
     Header |-> Headers(RespHeaderNames, given), Body |-> body]

NilResponse == [Response(0, <<>>, Empty) EXCEPT !.IsNil = TRUE]

ContentType(v) == [n \in {"Content-Type"} |-> v]

\* What the upstream may answer (nil: the round trip failed).
Responses ==
    { NilResponse,
      Response(200, ContentType(<<"text/", "html">>), <<"page">>),
      Response(200, ContentType(<<"application/", "json">>), <<"data">>) }

\* goproxy.NewResponse(r, goproxy.ContentTypeText, status, body)
NewResponse(status, body) ==
    Response(status, ContentType(<<"text/", "plain">>), body)

allowedCorsMethods == <<"GET,POST,PUT,PATCH,DELETE,COPY,HEAD,OPTIONS,LINK,UNLINK,PURGE,LOCK,UNLOCK,PROPFIND">>

StatusOK == 200
StatusServiceUnavailable == 503

-----------------------------------------------------------------------------
(* State *)

\* The detached goroutine: where it stands and what its closure captured.
NoTask == [state |-> "none", env |-> EmptyEnv, noContext |-> Empty,
           isDashboardRequest |-> FALSE, resp |-> NilResponse,
           slrequest |-> <<>>]

\* What is remembered about the session a slot runs.
NoHist ==
    [received      |-> BlankRequest,  \* the request as the engine received it
     envSeen       |-> {},            \* every result of GetEnvironment
     envLookups    |-> 0,             \* resolutions of the environment
     tenantLookups |-> 0,             \* LRU/store lookups of the api/project
     tenant        |-> <<>>,          \* the latest GetApi / GetProject result
     resolved      |-> <<>>,          \* the latest GetEnvironment call
     origin        |-> <<>>,          \* the GetOrigin call of CleanRequest
     cleaned       |-> <<>>,          \* CleanRequest: request before, env used
     removed       |-> 0,             \* deletes that removed the session
     overlapped    |-> FALSE,         \* a lookup ran during another's write
     detached      |-> <<>>,          \* what held when the task was detached
     recorded      |-> <<>>,          \* what held when the record was built
     returned      |-> <<>>,          \* responses the capture stage returned
     offered       |-> <<>>,          \* the response the capture stage was given
     forwarded     |-> FALSE,         \* the engine sent the request upstream
     preflight     |-> <<>>,          \* the environment the preflight hook got
     postflight    |-> <<>>,          \* the environment the postflight hook got
     creates       |-> 0]             \* dbConnection.Create calls of the task

\* No helper is called on its own in the runs of the pipeline.
NoCall == [fn |-> "none", done |-> TRUE]

\* The proxy has just started: no session, nothing cached.
Idle ==
    /\ rev \in Revisions
    /\ running \in [EnvIds -> BOOLEAN]
    /\ toggles = 0
    /\ cache = <<>>
    /\ requestData = {}
    /\ writing = {}
    /\ crashed = FALSE
    /\ sess = 0
    /\ sid = [s \in Slots |-> 0]
    /\ pc = [s \in Slots |-> "idle"]
    /\ req = [s \in Slots |-> BlankRequest]
    /\ ctx = [s \in Slots |-> NewBaseRequest(BlankRequest)]
    /\ resp = [s \in Slots |-> NilResponse]
    /\ task = [s \in Slots |-> NoTask]
    /\ saved = [s \in Slots |-> <<>>]
    /\ events = [s \in Slots |-> <<>>]
    /\ hist = [s \in Slots |-> NoHist]

Init ==
    /\ Idle
    /\ call = NoCall

\* The slot's pipeline moves on: the hook's effect on the request, the
\* wrapper, the response and the LRU.
Update(s, next, r, br, rs, c, h) ==
    /\ pc' = [pc EXCEPT ![s] = next]
    /\ req' = [req EXCEPT ![s] = r]
    /\ ctx' = [ctx EXCEPT ![s] = br]
    /\ resp' = [resp EXCEPT ![s] = rs]
    /\ cache' = c
    /\ hist' = [hist EXCEPT ![s] = h]

\* A hook panicked (nil dereference, failed type assertion): net/http
\* recovers and drops the connection; no later hook of the session runs.
Panic(s, c, h) == Update(s, "panic", req[s], ctx[s], resp[s], c, h)

\* requestData[ctx.Session]: nil when the session has no entry.
Present(s) == sid[s] \in requestData

\* The hook of slot s looks requestData up; note when that happens while
\* another slot is writing the map.
Looked(s, h) ==
    [h EXCEPT !.overlapped = @ \/ (writing \ {s} # {})]

\* Note one GetEnvironment call on request r and its result e.
Resolved(h, r, e) ==
    [h EXCEPT !.envSeen = @ \cup {e.env},
              !.envLookups = @ + e.lookups,
              !.resolved = <<[URL |-> r.URL, Host |-> r.Host,
                              running |-> running, env |-> e.env]>>]

\* Note the lookups a GetOrigin / GetApi / GetProject call made.
Nested(h, g) ==
    [h EXCEPT !.envSeen = @ \cup g.envs]

\* Note the GetEnvironment call e of PreflightCorsSupport on request r.
Preflown(h, r, e) == [Resolved(h, r, e) EXCEPT !.preflight = <<e.env>>]

\* Note the GetEnvironment call e of PostflightCorsSupport on request r.
Postflown(h, r, e) == [Resolved(h, r, e) EXCEPT !.postflight = <<e.env>>]

-----------------------------------------------------------------------------
(* The engine and the tenant store *)

Finished(s) ==
    /\ pc[s] \in {"done", "panic"}
    /\ task[s].state \in {"none", "failed", "done"}

\* The engine accepts a request from the pool on an idle slot and gives it
\* the next session id (an atomic counter).
Accept(s, pool) ==
    /\ ~crashed
    /\ sess < MaxSessions
    /\ pc[s] = "idle" \/ Finished(s)
    /\ \E r \in pool :
          /\ req' = [req EXCEPT ![s] = r]
          /\ hist' = [hist EXCEPT ![s] = [NoHist EXCEPT !.received = r]]
    /\ sess' = sess + 1
    /\ sid' = [sid EXCEPT ![s] = sess + 1]
    /\ pc' = [pc EXCEPT ![s] = "SetupRequest"]
    /\ ctx' = [ctx EXCEPT ![s] = NewBaseRequest(BlankRequest)]
    /\ resp' = [resp EXCEPT ![s] = NilResponse]
    /\ task' = [task EXCEPT ![s] = NoTask]
    /\ saved' = [saved EXCEPT ![s] = <<>>]
    /\ events' = [events EXCEPT ![s] = <<>>]
    /\ UNCHANGED <<call, rev, running, toggles, cache, requestData, writing, crashed>>

\* Someone starts or stops an environment in the dashboard.
ToggleRunning ==
    /\ ~crashed
    /\ toggles < MaxToggles
    /\ \E e \in EnvIds : running' = [running EXCEPT ![e] = ~@]
    /\ toggles' = toggles + 1
    /\ UNCHANGED <<call, rev, cache, requestData, writing, crashed, sess, sid, pc,
                   req, ctx, resp, task, saved, events, hist>>

\* The hooks that write requestData: SetupRequest inserts, Cleanup deletes,
\* and in the early revision SaveStopLightRequest deletes on return.
Writes(s) ==
    \/ pc[s] \in {"SetupRequest", "Cleanup"}
    \/ /\ pc[s] = "SaveStopLightRequest"
       /\ rev = "early"
       /\ Present(s)
       /\ ~ctx[s].Skip

\* The hook of slot s reaches its write to the map.  Nothing guards the map,
\* so this is enabled whatever the other slots are doing.
MapWriteBegin(s) ==
    /\ ~crashed
    /\ Writes(s)
    /\ s \notin writing
    /\ writing' = writing \cup {s}
    /\ UNCHANGED <<call, rev, running, toggles, cache, requestData, crashed, sess,
                   sid, pc, req, ctx, resp, task, saved, events, hist>>

\* The hook of slot s may run: a writing hook has reached its write.
Ready(s, hook) ==
    /\ ~crashed
    /\ pc[s] = hook
    /\ Writes(s) => s \in writing

\* Two goroutines are in the map at once and one of them writes: the Go
\* runtime may detect it and end the process ("concurrent map writes").
FatalConcurrentMapAccess(s) ==
    /\ ~crashed
    /\ pc[s] \notin {"idle", "RoundTrip", "done", "panic"}
    /\ Writes(s) => s \in writing
    /\ writing \ {s} # {}
    /\ crashed' = TRUE
    /\ UNCHANGED <<call, rev, running, toggles, cache, requestData, writing, sess,
                   sid, pc, req, ctx, resp, task, saved, events, hist>>

-----------------------------------------------------------------------------
(* Request hooks *)

\* SetupRequest: wrap the request and store the wrapper under the session.
SetupRequest(s) ==
    /\ Ready(s, "SetupRequest")
    /\ requestData' = requestData \cup {sid[s]}
    /\ writing' = writing \ {s}
    /\ Update(s, "PreflightCorsSupport", req[s], NewBaseRequest(req[s]),
              resp[s], cache, hist[s])
    /\ UNCHANGED <<call, rev, running, toggles, crashed, sess, sid, task, saved,
                   events>>

\* The Allow-* headers both CORS hooks write.
CorsHeaders(h, r, methods) ==
    Set(Set(Set(Set(h, "Access-Control-Allow-Credentials", True),
                "Access-Control-Allow-Headers",
                Get(r.Header, "Access-Control-Request-Headers")),
            "Access-Control-Allow-Methods", methods),
        "Access-Control-Allow-Origin", <<"*">>)

\* The preflight headers without Access-Control-Expose-Headers.
PreflightHeadersUnexposed(h, r) == CorsHeaders(h, r, allowedCorsMethods)

\* ... and the Expose-Headers header the preflight hook adds.
PreflightHeaders(h, r) ==
    Set(CorsHeaders(h, r, allowedCorsMethods),
        "Access-Control-Expose-Headers", <<"Content-Length">>)

\* The answer to an OPTIONS request.
PreflightAnswer(r) ==
    [NewResponse(StatusOK, Empty) EXCEPT
        !.Header = PreflightHeaders(NewResponse(StatusOK, Empty).Header, r)]

\* The body of PreflightCorsSupport on request r; e is the GetEnvironment
\* call of its second branch.
PreflightCorsSupportOn(s, r, h, e) ==
    IF ~Present(s) THEN Panic(s, cache, h)
    ELSE IF r.Method = "OPTIONS"
    THEN Update(s, "PostflightCorsSupport", r, [ctx[s] EXCEPT !.Skip = TRUE],
                PreflightAnswer(r), cache, h)
    ELSE IF e.fault THEN Panic(s, e.cache, Preflown(h, r, e))
    ELSE IF e.env.Slug = Empty
    THEN Update(s, "CleanRequest", r, ctx[s], resp[s], e.cache,
                Preflown(h, r, e))
    ELSE Update(s, "CleanRequest",
                [r EXCEPT !.Header = PreflightHeaders(r.Header, r)],
                ctx[s], resp[s], e.cache, Preflown(h, r, e))

\* PreflightCorsSupport: answer OPTIONS on the spot, else add the CORS
\* headers to a request that has an environment.
PreflightCorsSupport(s) ==
    /\ Ready(s, "PreflightCorsSupport")
    /\ PreflightCorsSupportOn(s, req[s], Looked(s, hist[s]),
                              GetEnvironment(ctx[s], req[s], cache))
    /\ UNCHANGED <<call, rev, running, toggles, requestData, writing, crashed, sess,
                   sid, task, saved, events>>

\* Note what CleanRequest worked on: the request before, the environment
\* whose slug it strips and the state of the store.
Cleaning(h, r, e) ==
    [Resolved(h, r, e) EXCEPT
        !.cleaned = <<[before |-> r, env |-> e.env, running |-> running]>>]

\* The request pointed at url, with the slug of env stripped from its path.
Retarget(r, url, env) ==
    [r EXCEPT !.RequestURI = Empty,
              !.URL = [@ EXCEPT !.Scheme = url.Scheme,
                                !.Host = url.Host,
                                !.Path = urlWithoutEnvironment(env, r.URL.Path)],
              !.Host = url.Host]

\* "http(s)://" + env.Url
Upstream(env) ==
    (IF env.Ssl THEN <<"https", "://">> ELSE <<"http", "://">>) \o env.Url

\* The body of CleanRequest, part_002:74-101.
CleanRequestEarlyOn(s, r, h, e) ==
    IF ~Present(s) THEN Panic(s, cache, h)
    ELSE IF e.fault THEN Panic(s, e.cache, Resolved(h, r, e))
    ELSE IF e.env.Slug = Empty
    THEN Update(s, "RoundTrip", r, ctx[s], resp[s], e.cache, Cleaning(h, r, e))
    ELSE Update(s, "RoundTrip",
                [Retarget(r, Parse(Upstream(e.env)), e.env) EXCEPT
                    !.Header = Add(Add(@, "StopLight-Request", True),
                                   "Host", Parse(Upstream(e.env)).Host)],
                ctx[s], resp[s], e.cache, Cleaning(h, r, e))

\* CleanRequest, part_002:74-101: nothing without an environment; else point
\* the request at the environment's upstream and strip the slug.
CleanRequestEarly(s) ==
    /\ Ready(s, "CleanRequest")
    /\ rev = "early"
    /\ CleanRequestEarlyOn(s, req[s], Looked(s, hist[s]),
                           GetEnvironment(ctx[s], req[s], cache))
    /\ UNCHANGED <<call, rev, running, toggles, requestData, writing, crashed, sess,
                   sid, task, saved, events>>

\* Note the GetOrigin call o of CleanRequest, made with control headers hdr.
Originating(h, o, hdr) ==
    [Nested(h, o) EXCEPT
        !.envLookups = @ + o.lookups,
        !.origin = <<[u |-> o.u, own |-> o.own, envs |-> o.envs,
                      header |-> hdr]>>]

\* The body of CleanRequest, helpers.go:73-85; e is its GetEnvironment call
\* and o the GetOrigin call after it.  u.Scheme on a nil u panics after
\* RequestURI was cleared.
CleanRequestOn(s, r, h, e, o) ==
    IF ~Present(s) THEN Panic(s, cache, h)
    ELSE IF e.fault THEN Panic(s, e.cache, Resolved(h, r, e))
    ELSE IF o.fault
    THEN Panic(s, o.cache,
               Originating(Resolved(h, r, e), o, ControlHeaders(ctx[s], r)))
    ELSE IF o.u.IsNil
    THEN Update(s, "panic", [r EXCEPT !.RequestURI = Empty], ctx[s], resp[s],
                o.cache,
                Originating(Resolved(h, r, e), o, ControlHeaders(ctx[s], r)))
    ELSE Update(s, "RoundTrip", Retarget(r, o.u, e.env), ctx[s], resp[s],
                o.cache,
                Originating(Cleaning(h, r, e), o, ControlHeaders(ctx[s], r)))

\* The GetOrigin call CleanRequest makes after its GetEnvironment call e.
OriginAfter(s, e) == GetOrigin(ctx[s], req[s], e.cache)

\* CleanRequest, helpers.go:73-85: point the request at GetOrigin() and strip
\* the slug of GetEnvironment() from the path.
CleanRequest(s) ==
    /\ Ready(s, "CleanRequest")
    /\ rev # "early"
    /\ CleanRequestOn(s, req[s], Looked(s, hist[s]),
                      GetEnvironment(ctx[s], req[s], cache),
                      OriginAfter(s, GetEnvironment(ctx[s], req[s], cache)))
    /\ UNCHANGED <<call, rev, running, toggles, requestData, writing, crashed, sess,
                   sid, task, saved, events>>

\* The engine sends the request upstream; nil when the round trip fails.
RoundTrip(s) ==
    /\ ~crashed
    /\ pc[s] = "RoundTrip"
    /\ \E answer \in Responses :
          Update(s, "PostflightCorsSupport", req[s], ctx[s], answer, cache,
                 [hist[s] EXCEPT !.forwarded = TRUE])
    /\ UNCHANGED <<call, rev, running, toggles, requestData, writing, crashed, sess,
                   sid, task, saved, events>>

-----------------------------------------------------------------------------
(* Response hooks *)

\* PostflightCorsSupport of part_002:103-114 without the test of Skip.
PostflightCorsSupportEarlyUnskipped(s, r, h, e) ==
    IF ~Present(s) THEN Panic(s, cache, h)
    ELSE IF e.fault THEN Panic(s, e.cache, Postflown(h, r, e))
    ELSE IF e.env.Slug = Empty \/ resp[s].IsNil
    THEN Update(s, "SaveStopLightRequest", r, ctx[s], resp[s], e.cache,
                Postflown(h, r, e))
    ELSE Update(s, "SaveStopLightRequest", r, ctx[s],
                [resp[s] EXCEPT !.Header =
                    CorsHeaders(@, r, <<"GET, POST, OPTIONS, DELETE, PUT, PATCH">>)],
                e.cache, Postflown(h, r, e))

\* The body of PostflightCorsSupport, part_002:103-114.
PostflightCorsSupportEarlyOn(s, r, h, e) ==
    IF ~Present(s) THEN Panic(s, cache, h)
    ELSE IF ctx[s].Skip
    THEN Update(s, "SaveStopLightRequest", r, ctx[s], resp[s], cache, h)
    ELSE IF e.fault THEN Panic(s, e.cache, Postflown(h, r, e))
    ELSE IF e.env.Slug = Empty \/ resp[s].IsNil
    THEN Update(s, "SaveStopLightRequest", r, ctx[s], resp[s], e.cache,
                Postflown(h, r, e))
    ELSE Update(s, "SaveStopLightRequest", r, ctx[s],
                [resp[s] EXCEPT !.Header =
                    CorsHeaders(@, r, <<"GET, POST, OPTIONS, DELETE, PUT, PATCH">>)],
                e.cache, Postflown(h, r, e))

\* PostflightCorsSupport, part_002:103-114.
PostflightCorsSupportEarly(s) ==
    /\ Ready(s, "PostflightCorsSupport")
    /\ rev = "early"
    /\ PostflightCorsSupportEarlyOn(s, req[s], Looked(s, hist[s]),
                                    GetEnvironment(ctx[s], req[s], cache))
    /\ UNCHANGED <<call, rev, running, toggles, requestData, writing, crashed, sess,
                   sid, task, saved, events>>

\* The body of PostflightCorsSupport, helpers.go:87-99.
PostflightCorsSupportOn(s, r, h, e) ==
    IF resp[s].IsNil \/ ~Present(s)
    THEN Update(s, "SetupResponse", r, ctx[s], resp[s], cache, h)
    ELSE IF e.fault THEN Panic(s, e.cache, Postflown(h, r, e))
    ELSE IF e.env.Slug = Empty
    THEN Update(s, "SetupResponse", r, ctx[s], resp[s], e.cache,
                Postflown(h, r, e))
    ELSE Update(s, "SetupResponse", r, ctx[s],
                [resp[s] EXCEPT !.Header = CorsHeaders(@, r, allowedCorsMethods)],
                e.cache, Postflown(h, r, e))

\* PostflightCorsSupport, helpers.go:87-99.
PostflightCorsSupport(s) ==
    /\ Ready(s, "PostflightCorsSupport")
    /\ rev # "early"
    /\ PostflightCorsSupportOn(s, req[s], Looked(s, hist[s]),
                               GetEnvironment(ctx[s], req[s], cache))
    /\ UNCHANGED <<call, rev, running, toggles, requestData, writing, crashed, sess,
                   sid, task, saved, events>>

\* xff = resp.Header.Get("X-Forwarded-For"), then ", " and the client's
\* address appended, or the address alone.
ForwardedFor(old, addr) ==
    IF old # Empty THEN old \o <<", ">> \o addr ELSE addr

\* SetupResponse: X-Forwarded-For and the capture marker on the response.
SetupResponse(s) ==
    /\ Ready(s, "SetupResponse")
    /\ rev # "early"
    /\ IF resp[s].IsNil \/ ~Present(s) \/ ctx[s].Skip
       THEN Update(s, "SaveStopLightRequest", req[s], ctx[s], resp[s],
                   cache, Looked(s, hist[s]))
       ELSE Update(s, "SaveStopLightRequest", req[s], ctx[s],
                   [resp[s] EXCEPT !.Header =
                       Set(Set(@, "X-Forwarded-For",
                               ForwardedFor(Get(resp[s].Header, "X-Forwarded-For"),
                                            req[s].RemoteAddr)),
                           "X-StopLight-Request", True)],
                   cache, Looked(s, hist[s]))
    /\ UNCHANGED <<call, rev, running, toggles, requestData, writing, crashed, sess,
                   sid, task, saved, events>>

\* string(strconv.Itoa(code)[0]): the first decimal digit of a status code.
RECURSIVE FirstDigit(_)
FirstDigit(code) == IF code < 10 THEN code ELSE FirstDigit(code \div 10)

validStatusCode(rs) == rs.StatusCode = 304 \/ FirstDigit(rs.StatusCode) = 2

\* The response is worth capturing by its status or content type.
Interesting(rs, typeString) ==
    \/ ~validStatusCode(rs)
    \/ Contains(typeString, <<"json">>)
    \/ Contains(typeString, <<"xml">>)

\* isValidResponse, part_002:183-200.
isValidResponseEarly(r, rs) ==
    IF Get(r.Header, "StopLight-Ignore") = True THEN FALSE
    ELSE IF rs.IsNil THEN TRUE
    ELSE \/ r.Method # "GET"
         \/ Get(r.Header, "X-Requested-With") # Empty
         \/ Interesting(rs, Get(rs.Header, "Content-Type"))

\* isValidResponse of helpers.go without its first test.
isValidResponseApiHeedless(r, rs) ==
    IF rs.IsNil THEN TRUE
    ELSE \/ Get(r.Header, "X-StopLight-Api") # Empty
         \/ r.Method # "GET"
         \/ Get(r.Header, "X-Requested-With") # Empty
         \/ Interesting(rs, Get(rs.Header, "Content-Type"))

\* The header that carries the ignore directive: "StopLight-Ignore" in
\* part_002:183-200, "X-StopLight-Ignore" since.
IgnoreHeader == IF rev = "early" THEN "StopLight-Ignore" ELSE "X-StopLight-Ignore"

\* isValidResponse, helpers.go:199-218.
isValidResponseApi(r, rs) ==
    IF Get(r.Header, "X-StopLight-Ignore") = True THEN FALSE
    ELSE IF rs.IsNil THEN TRUE
    ELSE \/ Get(r.Header, "X-StopLight-Api") # Empty
         \/ r.Method # "GET"
         \/ Get(r.Header, "X-Requested-With") # Empty
         \/ Interesting(rs, Get(rs.Header, "Content-Type"))

\* The type test of part_002:465-492 on Accept + Content-Type.
InterestingType(rs, typeString) ==
    \/ ~validStatusCode(rs)
    \/ /\ Contains(typeString, <<"json">>) \/ Contains(typeString, <<"xml">>)
       /\ ~Contains(typeString, <<"html">>)

\* isValidResponse, part_002:465-492, for wrapper br (present tells whether
\* baseRequest is non-nil).  p is the GetProject call it makes.
isValidResponse(present, br, r, rs, p) ==
    IF ~present \/ br.Skip \/ Get(r.Header, "X-StopLight-Ignore") = True
    THEN FALSE
    ELSE IF Get(r.Header, "X-StopLight-Dashboard") = True THEN TRUE
    ELSE IF p.val.Id = Empty THEN FALSE
    ELSE IF rs.IsNil THEN TRUE
    ELSE \/ r.Method # "GET"
         \/ Get(r.Header, "X-Requested-With") # Empty
         \/ InterestingType(rs, Get(r.Header, "Accept")
                                \o Get(rs.Header, "Content-Type"))

\* The response the capture stage works on: a 503 placeholder for nil.
OrUnavailable(rs) ==
    IF rs.IsNil
    THEN NewResponse(StatusServiceUnavailable,
                     <<"Service not available. Is the server running?">>)
    ELSE rs

\* The capture stage hands the response back and detaches the goroutine
\* (t: what the closure captured) or does not (t = NoTask).
Saved(s, next, rs, c, h, t) ==
    /\ Update(s, next, req[s], ctx[s], rs, c,
              [h EXCEPT !.returned = <<rs>>,
                        !.offered = <<resp[s]>>,
                        !.detached = IF t.state = "none" THEN <<>>
                                     ELSE <<[header |-> req[s].Header,
                                             tenant |-> h.tenant,
                                             toggles |-> toggles,
                                             creates |-> h.creates]>>])
    /\ task' = [task EXCEPT ![s] = t]

\* The goroutine a capture stage detaches, with what its closure holds.
Spawned(env, noContext, isDashboardRequest, rs) ==
    [NoTask EXCEPT !.state = "spawned", !.env = env,
                   !.noContext = noContext,
                   !.isDashboardRequest = isDashboardRequest, !.resp = rs]

\* Note that the deferred delete removed the session.
Gone(h) == [h EXCEPT !.removed = @ + 1]

\* The body of SaveStopLightRequest, part_002:116-158, past the Skip test;
\* the deferred delete runs however the body ends.
SaveStopLightRequestEarlyOn(s, r, h, e) ==
    IF e.fault THEN Panic(s, e.cache, Gone(Resolved(h, r, e))) /\ UNCHANGED task
    ELSE IF isValidResponseEarly(r, resp[s]) /\ e.env.Slug # Empty
    THEN Saved(s, "done", OrUnavailable(resp[s]), e.cache,
               Gone(Resolved(h, r, e)),
               Spawned(e.env, Empty, FALSE, OrUnavailable(resp[s])))
    ELSE Saved(s, "done", resp[s], e.cache, Gone(Resolved(h, r, e)), NoTask)

\* SaveStopLightRequest, part_002:116-158: deletes the session on return,
\* unless the session is skipped.
SaveStopLightRequestEarly(s) ==
    /\ Ready(s, "SaveStopLightRequest")
    /\ rev = "early"
    /\ IF ~Present(s)
       THEN /\ Panic(s, cache, Looked(s, hist[s]))
            /\ UNCHANGED <<task, requestData, writing>>
       ELSE IF ctx[s].Skip
       THEN /\ Saved(s, "done", resp[s], cache, Looked(s, hist[s]), NoTask)
            /\ UNCHANGED <<requestData, writing>>
       ELSE /\ requestData' = requestData \ {sid[s]}
            /\ writing' = writing \ {s}
            /\ SaveStopLightRequestEarlyOn(s, req[s], Looked(s, hist[s]),
                   GetEnvironment(ctx[s], req[s], cache))
    /\ UNCHANGED <<call, rev, running, toggles, crashed, sess, sid, saved, events>>

\* Note the lookups of a GetApi / GetProject call a.
Asked(h, a) ==
    [Nested(h, a) EXCEPT !.envLookups = @ + a.envLookups,
                         !.tenantLookups = @ + a.lookups,
                         !.tenant = <<a.val>>]

\* The body of SaveStopLightRequest, helpers.go:122-163, once the GetApi
\* call of its guard (noted in h) found an api; e is the GetEnvironment
\* call after it.
SaveStopLightRequestApiOn(s, r, h, e) ==
    IF e.fault THEN Panic(s, e.cache, Resolved(h, r, e)) /\ UNCHANGED task
    ELSE IF isValidResponseApi(r, resp[s])
    THEN Saved(s, "Cleanup", OrUnavailable(resp[s]), e.cache,
               Resolved(h, r, e),
               Spawned(e.env, Empty, FALSE, OrUnavailable(resp[s])))
    ELSE Saved(s, "Cleanup", resp[s], e.cache, Resolved(h, r, e), NoTask)

\* The guard of SaveStopLightRequest, helpers.go:124-126; a is its GetApi
\* call.
SaveStopLightRequestApiGuard(s, h, a) ==
    IF ~Present(s) \/ ctx[s].Skip
    THEN Saved(s, "Cleanup", resp[s], cache, h, NoTask)
    ELSE IF a.fault THEN Panic(s, a.cache, Asked(h, a)) /\ UNCHANGED task
    ELSE IF a.val.Id = Empty
    THEN Saved(s, "Cleanup", resp[s], a.cache, Asked(h, a), NoTask)
    ELSE SaveStopLightRequestApiOn(s, req[s], Asked(h, a),
                                   GetEnvironment(ctx[s], req[s], a.cache))

\* SaveStopLightRequest, helpers.go:122-163.
SaveStopLightRequestApi(s) ==
    /\ Ready(s, "SaveStopLightRequest")
    /\ rev = "api"
    /\ SaveStopLightRequestApiGuard(s, Looked(s, hist[s]),
                                    GetApi(ctx[s], req[s], cache))
    /\ UNCHANGED <<call, rev, running, toggles, requestData, writing, crashed, sess,
                   sid, saved, events>>

\* isValidResponse reaches its GetProject call.
AsksProject(s) ==
    /\ Present(s)
    /\ ~ctx[s].Skip
    /\ Get(req[s].Header, "X-StopLight-Ignore") # True

\* The body of SaveStopLightRequest, part_002:339-425, when isValidResponse
\* made its GetProject call p.
SaveStopLightRequestOn(s, br, h, p) ==
    IF p.fault THEN Panic(s, p.cache, Asked(h, p)) /\ UNCHANGED task
    ELSE IF isValidResponse(TRUE, br, req[s], resp[s], p)
    THEN Saved(s, "Cleanup", OrUnavailable(resp[s]), p.cache, Asked(h, p),
               Spawned(EmptyEnv, Get(br.ReqHeaders, "X-StopLight-No-Context"),
                       Get(br.ReqHeaders, "X-StopLight-Dashboard") = True,
                       OrUnavailable(resp[s])))
    ELSE Saved(s, "Cleanup", resp[s], p.cache, Asked(h, p), NoTask)

\* SaveStopLightRequest, part_002:339-425.
SaveStopLightRequest(s) ==
    /\ Ready(s, "SaveStopLightRequest")
    /\ rev = "project"
    /\ IF AsksProject(s)
       THEN SaveStopLightRequestOn(s, ctx[s], Looked(s, hist[s]),
                                   GetProject(ctx[s], req[s], cache))
       ELSE Saved(s, "Cleanup", resp[s], cache, Looked(s, hist[s]), NoTask)
    /\ UNCHANGED <<call, rev, running, toggles, requestData, writing, crashed, sess,
                   sid, saved, events>>

\* Cleanup, helpers.go:165-174: scrub two control headers, drop the session.
CleanupApi(s) ==
    /\ Ready(s, "Cleanup")
    /\ rev = "api"
    /\ requestData' = requestData \ {sid[s]}
    /\ writing' = writing \ {s}
    /\ Update(s, "done",
              [req[s] EXCEPT !.Header =
                  Del(Del(@, "X-StopLight-Url-Host"), "X-StopLight-Api")],
              ctx[s], resp[s], cache,
              [hist[s] EXCEPT !.removed = @ + (IF Present(s) THEN 1 ELSE 0)])
    /\ UNCHANGED <<call, rev, running, toggles, crashed, sess, sid, task, saved,
                   events>>

\* Cleanup, part_002:427-439: scrub five control headers, drop the session.
Cleanup(s) ==
    /\ Ready(s, "Cleanup")
    /\ rev = "project"
    /\ requestData' = requestData \ {sid[s]}
    /\ writing' = writing \ {s}
    /\ Update(s, "done",
              [req[s] EXCEPT !.Header =
                  Del(Del(Del(Del(Del(@, "X-StopLight-Dashboard"),
                                  "X-StopLight-Project"),
                              "X-StopLight-Url-Host"),
                          "X-StopLight-No-Context"),
                      "X-StopLight-Authorization")],
              ctx[s], resp[s], cache,
              [hist[s] EXCEPT !.removed = @ + (IF Present(s) THEN 1 ELSE 0)])
    /\ UNCHANGED <<call, rev, running, toggles, crashed, sess, sid, task, saved,
                   events>>

-----------------------------------------------------------------------------
(* The detached capture goroutine *)

\* models.NewRequest(user, tenant, env, httpRequest, body, resp, respBody):
\* the capture record, built from the request as it is when the call runs.
NewRequest(session, user, tenant, env, r, rs) ==
    [Session |-> session, User |-> user.Id, Tenant |-> tenant.Id,
     Env |-> env.Slug, Method |-> r.Method, URL |-> r.URL, Host |-> r.Host,
     Header |-> r.Header, Status |-> rs.StatusCode, RespBody |-> rs.Body]

\* Create, with a failure to store reported to the client as a 503.
CreateAnswering(s, rec, stored, c, h, br) ==
    /\ task' = [task EXCEPT ![s] =
                   [@ EXCEPT !.state = IF stored THEN "created" ELSE "failed",
                             !.slrequest = <<rec>>]]
    /\ saved' = [saved EXCEPT ![s] = IF stored THEN Append(@, rec) ELSE @]
    /\ cache' = c
    /\ hist' = [hist EXCEPT ![s] =
                   [h EXCEPT !.recorded = <<[finished |-> pc[s] = "done",
                                             toggles |-> toggles]>>,
                             !.creates = @ + 1]]
    /\ ctx' = [ctx EXCEPT ![s] = br]
    /\ resp' = [resp EXCEPT ![s] =
                   IF stored THEN @
                   ELSE NewResponse(StatusServiceUnavailable, Empty)]
    /\ UNCHANGED <<call, rev, running, toggles, requestData, writing,
                   crashed, sess, sid, pc, req, events>>

\* The goroutine builds the record and hands it to dbConnection.Create, which
\* stores it (stored) or fails.  c, h, br: the LRU, the observations and the
\* wrapper after the lookups the goroutine made.
Create(s, rec, stored, c, h, br) ==
    /\ task' = [task EXCEPT ![s] =
                   [@ EXCEPT !.state = IF stored THEN "created" ELSE "failed",
                             !.slrequest = <<rec>>]]
    /\ saved' = [saved EXCEPT ![s] = IF stored THEN Append(@, rec) ELSE @]
    /\ cache' = c
    /\ hist' = [hist EXCEPT ![s] =
                   [h EXCEPT !.recorded = <<[finished |-> pc[s] = "done",
                                             toggles |-> toggles]>>,
                             !.creates = @ + 1]]
    /\ ctx' = [ctx EXCEPT ![s] = br]
    /\ UNCHANGED <<call, rev, running, toggles, requestData, writing, crashed, sess,
                   sid, pc, req, resp, events>>

\* A panic in the goroutine is not recovered: the process ends.
GoroutinePanic(c) ==
    /\ crashed' = TRUE
    /\ cache' = c
    /\ UNCHANGED <<call, rev, running, toggles, requestData, writing, sess, sid, pc,
                   req, ctx, resp, task, saved, events, hist>>

NoUser == [Id |-> Empty]

\* go func() of part_002:143-154: the environment was captured before.
TaskCreateEarly(s) ==
    /\ ~crashed
    /\ rev = "early"
    /\ task[s].state = "spawned"
    /\ \E stored \in BOOLEAN :
          Create(s, NewRequest(sid[s], NoUser, EmptyApi, task[s].env, req[s],
                               task[s].resp),
                 stored, cache, hist[s], ctx[s])

\* The body of go func(), helpers.go:148-159; a is its GetApi call.
TaskCreateApiOn(s, a) ==
    IF a.fault THEN GoroutinePanic(a.cache)
    ELSE \E stored \in BOOLEAN :
            Create(s, NewRequest(sid[s], NoUser, a.val, task[s].env, req[s],
                                 task[s].resp),
                   stored, a.cache, Asked(hist[s], a), ctx[s])

\* go func() of helpers.go:148-159: the api is looked up again.
TaskCreateApi(s) ==
    /\ ~crashed
    /\ rev = "api"
    /\ task[s].state = "spawned"
    /\ TaskCreateApiOn(s, GetApi(ctx[s], req[s], cache))

\* The wrapper once GetUser has resolved the user.
WithUser(br) == [br EXCEPT !.user = [IsNil |-> FALSE, val |-> GetUser(br)]]

\* go func() of part_002:368-421 with context: p is its GetProject call
\* and e the GetEnvironment call after it.
TaskCreateOn(s, br, p, e) ==
    IF p.fault THEN GoroutinePanic(p.cache)
    ELSE IF e.fault THEN GoroutinePanic(e.cache)
    ELSE \E stored \in BOOLEAN :
            Create(s, NewRequest(sid[s], br.user.val, p.val, e.env, req[s],
                                 task[s].resp),
                   stored, e.cache, Resolved(Asked(hist[s], p), req[s], e), br)

\* The GetEnvironment call the goroutine makes after its GetProject call p.
EnvironmentAfter(s, br, p) == GetEnvironment(br, req[s], p.cache)

\* go func() of part_002:368-421: user, project and environment are looked
\* up in the goroutine unless X-StopLight-No-Context was "true".
TaskCreate(s) ==
    /\ ~crashed
    /\ rev = "project"
    /\ task[s].state = "spawned"
    /\ IF task[s].noContext = True
       THEN \E stored \in BOOLEAN :
               Create(s, NewRequest(sid[s], GetUser(ctx[s]), EmptyApi,
                                    EmptyEnv, req[s], task[s].resp),
                      stored, cache, hist[s], WithUser(ctx[s]))
       ELSE TaskCreateOn(s, WithUser(ctx[s]),
                         GetProject(WithUser(ctx[s]), req[s], cache),
                         EnvironmentAfter(s, WithUser(ctx[s]),
                             GetProject(WithUser(ctx[s]), req[s], cache)))

\* The broadcast made whether or not the record was stored.
TaskBroadcastAlways(s) ==
    /\ ~crashed
    /\ task[s].state \in {"created", "failed"}
    /\ task' = [task EXCEPT ![s] = [@ EXCEPT !.state = "done"]]
    /\ events' = [events EXCEPT ![s] =
                     Append(@, [event |-> "request.create",
                                data |-> task[s].slrequest[1],
                                FromDashboard |-> task[s].isDashboardRequest])]
    /\ UNCHANGED <<call, rev, running, toggles, cache, requestData, writing,
                   crashed, sess, sid, pc, req, ctx, resp, saved, hist>>

\* The record was stored: broadcast "request.create".
TaskBroadcast(s) ==
    /\ ~crashed
    /\ task[s].state = "created"
    /\ task' = [task EXCEPT ![s] = [@ EXCEPT !.state = "done"]]
    /\ events' = [events EXCEPT ![s] =
                     Append(@, [event |-> "request.create",
                                data |-> task[s].slrequest[1],
                                FromDashboard |-> task[s].isDashboardRequest])]
    /\ UNCHANGED <<call, rev, running, toggles, cache, requestData, writing, crashed,
                   sess, sid, pc, req, ctx, resp, saved, hist>>

\* The goroutine reads the request's header map while Cleanup deletes from
\* it: one more unguarded map, and the runtime may end the process.
FatalHeaderRace(s) ==
    /\ ~crashed
    /\ pc[s] = "Cleanup"
    /\ s \in writing
    /\ task[s].state = "spawned"
    /\ crashed' = TRUE
    /\ UNCHANGED <<call, rev, running, toggles, cache, requestData, writing, sess,
                   sid, pc, req, ctx, resp, task, saved, events, hist>>

-----------------------------------------------------------------------------
(* The helpers called on their own, as the package's tests call them *)

\* The strings of at most n characters over an alphabet.
Strings(alphabet, n) == UNION {[1..k -> alphabet] : k \in 0..n}

\* urlWithoutEnvironment is given an environment with slug c.slug and the
\* path made of an optional leading "/", the slug and, unless bare, a "/"
\* and the rest.
UrlCalls ==
    {c \in [fn : {"urlWithoutEnvironment"},
            slug : Strings({"a", "b"}, MaxSlug) \ {Empty},
            leading : BOOLEAN, bare : BOOLEAN,
            rest : Strings({"/", "a", "x"}, MaxRest),
            done : {FALSE}, out : {Empty}] :
        c.bare => c.rest = Empty}

PathOf(c) ==
    (IF c.leading THEN Slash ELSE Empty) \o c.slug
    \o (IF c.bare THEN Empty ELSE Slash \o c.rest)

\* slugFromUrl is given a non-empty URL.
SlugCalls ==
    [fn : {"slugFromUrl"}, url : Strings({"/", "f", "b"}, MaxUrl) \ {Empty},
     done : {FALSE}, out : {Empty}]

\* What the capture decision is given: a request with or without each of
\* the headers it reads, the upstream's answer, the wrapper's state and the
\* tenant its lookup finds.
Methods == {"GET", "POST"}
Statuses == {200, 204, 304, 404}
Json == <<"application/", "json">>
Html == <<"text/", "html">>
Xml == <<"text/", "xml">>

Directed(method, ignore, dashboard, ajax, accept, api) ==
    [Plain(method, <<"/", "x">>, Empty, <<>>) EXCEPT !.Header =
        Set(Set(Set(Set(Set(@, "X-StopLight-Ignore", ignore),
                        "X-StopLight-Dashboard", dashboard),
                    "X-Requested-With", ajax),
                "Accept", accept),
            "X-StopLight-Api", api)]

DirectedRequests ==
    {Directed(method, ignore, dashboard, ajax, accept, api) :
        method \in Methods, ignore \in {NoHeader, True},
        dashboard \in {NoHeader, True}, ajax \in {NoHeader, <<"XMLHttpRequest">>},
        accept \in {NoHeader, Json, Html}, api \in {NoHeader, <<"p">>}}

Answers ==
    {NilResponse}
    \cup {Response(status, ContentType(type), Empty) :
             status \in Statuses, type \in {NoHeader, Json, Html, Xml}}

ValidCalls ==
    [fn : {"isValidResponse"}, present : BOOLEAN, skip : BOOLEAN,
     r : DirectedRequests, rs : Answers, tenant : {Empty, <<"p">>},
     done : {FALSE}, out : {FALSE}]

CallUrlWithoutEnvironment ==
    /\ call.fn = "urlWithoutEnvironment"
    /\ ~call.done
    /\ call' = [call EXCEPT
                   !.done = TRUE,
                   !.out = urlWithoutEnvironment(
                               [EmptyEnv EXCEPT !.Slug = call.slug],
                               PathOf(call))]
    /\ UNCHANGED <<rev, running, toggles, cache, requestData, writing,
                   crashed, sess, sid, pc, req, ctx, resp, task, saved,
                   events, hist>>

CallSlugFromUrl ==
    /\ call.fn = "slugFromUrl"
    /\ ~call.done
    /\ call' = [call EXCEPT !.done = TRUE, !.out = slugFromUrl(call.url)]
    /\ UNCHANGED <<rev, running, toggles, cache, requestData, writing,
                   crashed, sess, sid, pc, req, ctx, resp, task, saved,
                   events, hist>>

\* isValidResponse of the revision that runs; in part_002:465-492 it takes
\* the wrapper (nil when absent) and asks it for the project.
CallIsValidResponse ==
    /\ call.fn = "isValidResponse"
    /\ ~call.done
    /\ call' = [call EXCEPT
                   !.done = TRUE,
                   !.out = IF rev = "early"
                           THEN isValidResponseEarly(call.r, call.rs)
                           ELSE IF rev = "api"
                           THEN isValidResponseApi(call.r, call.rs)
                           ELSE isValidResponse(
                                    call.present,
                                    [NewBaseRequest(call.r) EXCEPT
                                        !.Skip = call.skip],
                                    call.r, call.rs,
                                    [val |-> [Id |-> call.tenant]])]
    /\ UNCHANGED <<rev, running, toggles, cache, requestData, writing,
                   crashed, sess, sid, pc, req, ctx, resp, task, saved,
                   events, hist>>

\* Requests that name a tenant in the override headers, or none, on a path
\* with the slug of an environment bound to a tenant (a), of one bound to
\* none (b), or of no environment.
Naming(id) == [n \in {"X-StopLight-Api", "X-StopLight-Project"} |-> id]

TenantRequests ==
    {Tls("GET", path, Empty, given) :
        path \in {<<"/", "a", "/", "x">>, <<"/", "b", "/", "x">>,
                  <<"/", "x">>},
        given \in {<<>>, Naming(<<"p">>), Naming(<<"q">>), Naming(<<"x">>)}}

TenantCalls ==
    [fn : {"GetTenant"}, r : TenantRequests, done : {FALSE}, out : {<<>>}]

\* GetProject (request.go) or GetApi (part_003) of a new wrapper of r.
TenantOf(r) ==
    IF rev = "project" THEN GetProject(NewBaseRequest(r), r, cache)
    ELSE GetApi(NewBaseRequest(r), r, cache)

\* NewBaseRequest(r, id).GetProject() / .GetApi()
CallGetTenant ==
    /\ call.fn = "GetTenant"
    /\ ~call.done
    /\ call' = [call EXCEPT !.done = TRUE, !.out = <<TenantOf(call.r)>>]
    /\ cache' = TenantOf(call.r).cache
    /\ UNCHANGED <<rev, running, toggles, requestData, writing,
                   crashed, sess, sid, pc, req, ctx, resp, task, saved,
                   events, hist>>

\* r.URL.Path handed to urlWithoutEnvironment by CleanRequest with the
\* environment GetEnvironment gave, found by its slug or by the host: any
\* absolute path.
PathCalls ==
    {c \in [fn : {"CleanRequest"},
            slug : Strings({"a", "b"}, MaxSlug) \ {Empty},
            path : Strings({"/", "a", "x"}, MaxPath),
            done : {FALSE}, out : {Empty}] :
        HasPrefix(c.path, Slash)}

\* r.URL.Path = urlWithoutEnvironment(&env, r.URL.Path)
CallCleanRequestPath ==
    /\ call.fn = "CleanRequest"
    /\ ~call.done
    /\ call' = [call EXCEPT
                   !.done = TRUE,
                   !.out = urlWithoutEnvironment(
                               [EmptyEnv EXCEPT !.Slug = call.slug],
                               call.path)]
    /\ UNCHANGED <<rev, running, toggles, cache, requestData, writing,
                   crashed, sess, sid, pc, req, ctx, resp, task, saved,
                   events, hist>>

-----------------------------------------------------------------------------
(* The session store on its own: hooks called for any session id *)

\* ctx.Session of the calls made on the store.
SessionIds == 1..MaxSessions

\* Requests whose wrappers differ (NewBaseRequest copies the headers).
StoredRequests ==
    { Tls("GET", <<"/", "a", "/", "x">>, Empty, <<>>),
      Tls("GET", <<"/", "a", "/", "x">>, Empty, Ignore) }

\* make(map[int64]*request.BaseRequest): <<>> stands for "no entry".
NoEntries == [session \in SessionIds |-> <<>>]

\* requestData[ctx.Session] = baseReq
StoreEntry(m, session, baseReq) == [m EXCEPT ![session] = <<baseReq>>]

\* delete on a map that forgets everything when the key is missing.
DeleteEntryOrAll(m, session) ==
    IF m[session] = <<>> THEN NoEntries ELSE [m EXCEPT ![session] = <<>>]

\* delete(requestData, ctx.Session)
DeleteEntry(m, session) == [m EXCEPT ![session] = <<>>]

\* No hook has been called on the store yet.
NoStoreCalls ==
    [fn |-> "requestData", done |-> FALSE, requestData |-> NoEntries,
     log |-> <<>>]

\* One call of a hook on the store, as the log keeps it: the hook returned
\* (failed is FALSE: neither hook has an error result or a panicking path).
StoreCall(hook, session, before, after) ==
    [hook |-> hook, Session |-> session, before |-> before, after |-> after,
     failed |-> FALSE]

\* SetupRequest called with ctx.Session = session whatever the store holds.
CallSetupRequest ==
    /\ call.fn = "requestData"
    /\ Len(call.log) < MaxCalls
    /\ \E session \in SessionIds, r \in StoredRequests :
          call' = [call EXCEPT
                      !.requestData = StoreEntry(@, session, NewBaseRequest(r)),
                      !.log = Append(@,
                                 StoreCall("SetupRequest", session,
                                           call.requestData,
                                           StoreEntry(call.requestData, session,
                                                      NewBaseRequest(r))))]
    /\ UNCHANGED <<rev, running, toggles, cache, requestData, writing,
                   crashed, sess, sid, pc, req, ctx, resp, task, saved,
                   events, hist>>

\* Cleanup called with ctx.Session = session whatever the store holds.
CallCleanup ==
    /\ call.fn = "requestData"
    /\ rev # "early"
    /\ Len(call.log) < MaxCalls
    /\ \E session \in SessionIds :
          call' = [call EXCEPT
                      !.requestData = DeleteEntry(@, session),
                      !.log = Append(@,
                                 StoreCall("Cleanup", session,
                                           call.requestData,
                                           DeleteEntry(call.requestData,
                                                       session)))]
    /\ UNCHANGED <<rev, running, toggles, cache, requestData, writing,
                   crashed, sess, sid, pc, req, ctx, resp, task, saved,
                   events, hist>>

-----------------------------------------------------------------------------
(* The user-data bag of the wrappers, request.go:156-181 *)

\* The goroutines that use the bags.
Callers == 1..MaxCallers

\* The wrappers of two sessions in flight.
Wrappers == {"one", "other"}

UserKeys == {"k"}
UserValues == {"v"}

\* A goroutine outside the three functions.
NoUserCall ==
    [op |-> "none", br |-> "none", key |-> "", baton |-> "", at |-> "idle",
     i |-> <<>>, b |-> FALSE]

\* Wrappers just made by NewBaseRequest: userData is nil (<<>>), each has a
\* mutex of its own.  written keeps, per wrapper and key, what the last
\* completed SetUserData / DeleteUserData left.
NoUserData ==
    [fn |-> "userData", done |-> FALSE,
     userData |-> [br \in Wrappers |-> <<>>],
     written |-> [br \in Wrappers |-> [key \in UserKeys |-> <<>>]],
     g |-> [c \in Callers |-> NoUserCall]]

\* userDataMutex: &sync.RWMutex{} of NewBaseRequest, shared by every wrapper.
SameMutexShared(br, other) == TRUE

\* userDataMutex: &sync.RWMutex{} of NewBaseRequest, one per wrapper.
SameMutex(br, other) == br = other

\* The goroutines between Lock() and Unlock() of the mutex of wrapper br.
Writers(br) ==
    {c \in Callers : /\ call.g[c].op \in {"SetUserData", "DeleteUserData"}
                     /\ call.g[c].at \in {"locked", "defer"}
                     /\ SameMutex(call.g[c].br, br)}

\* The goroutines between RLock() and RUnlock() of the mutex of wrapper br.
Readers(br) ==
    {c \in Callers : /\ call.g[c].op = "GetUserData"
                     /\ call.g[c].at \in {"locked", "defer"}
                     /\ SameMutex(call.g[c].br, br)}

\* The goroutines blocked in Lock() of the mutex of wrapper br.
Blocked(br) ==
    {c \in Callers : /\ call.g[c].at = "Lock"
                     /\ SameMutex(call.g[c].br, br)}

\* sync.RWMutex: Lock returns once no goroutine holds the mutex.
CanLock(br) == Writers(br) = {} /\ Readers(br) = {}

\* sync.RWMutex: RLock returns once no writer holds the mutex or waits
\* for it.
CanRLock(br) == Writers(br) = {} /\ Blocked(br) = {}

\* Goroutine c moves on in its call.
Moved(c, at) == call' = [call EXCEPT !.g[c].at = at]

\* A goroutine enters SetUserData, GetUserData or DeleteUserData of a
\* wrapper and reaches the Lock() / RLock() in its first line.
EnterUserData(c) ==
    /\ call.fn = "userData"
    /\ call.g[c].at = "idle"
    /\ \E br \in Wrappers, key \in UserKeys :
          \/ \E baton \in UserValues :
                call' = [call EXCEPT !.g[c] =
                            [NoUserCall EXCEPT !.op = "SetUserData",
                                               !.br = br, !.key = key,
                                               !.baton = baton, !.at = "Lock"]]
          \/ call' = [call EXCEPT !.g[c] =
                         [NoUserCall EXCEPT !.op = "DeleteUserData", !.br = br,
                                            !.key = key, !.at = "Lock"]]
          \/ call' = [call EXCEPT !.g[c] =
                         [NoUserCall EXCEPT !.op = "GetUserData", !.br = br,
                                            !.key = key, !.at = "RLock"]]
    /\ UNCHANGED <<rev, running, toggles, cache, requestData, writing,
                   crashed, sess, sid, pc, req, ctx, resp, task, saved,
                   events, hist>>

\* br.userDataMutex.Lock() returns.
Lock(c) ==
    /\ call.fn = "userData"
    /\ call.g[c].at = "Lock"
    /\ CanLock(call.g[c].br)
    /\ Moved(c, "locked")
    /\ UNCHANGED <<rev, running, toggles, cache, requestData, writing,
                   crashed, sess, sid, pc, req, ctx, resp, task, saved,
                   events, hist>>

\* br.userDataMutex.RLock() returns.
RLock(c) ==
    /\ call.fn = "userData"
    /\ call.g[c].at = "RLock"
    /\ CanRLock(call.g[c].br)
    /\ Moved(c, "locked")
    /\ UNCHANGED <<rev, running, toggles, cache, requestData, writing,
                   crashed, sess, sid, pc, req, ctx, resp, task, saved,
                   events, hist>>

\* br.userData[key] = baton, on a map made when br.userData was nil.
WithEntry(userData, key, baton) ==
    IF userData = <<>>
    THEN <<[k \in UserKeys |-> IF k = key THEN <<baton>> ELSE <<>>]>>
    ELSE <<[userData[1] EXCEPT ![key] = <<baton>>]>>

\* delete(br.userData, key), skipped when br.userData is nil.
WithoutEntry(userData, key) ==
    IF userData = <<>> THEN userData
    ELSE <<[userData[1] EXCEPT ![key] = <<>>]>>

\* i, b = br.userData[key]; (nil, false) when br.userData is nil.
Entry(userData, key) ==
    IF userData = <<>> THEN <<>> ELSE userData[1][key]

\* The body of SetUserData, under the write lock.
SetUserData(c) ==
    /\ call.fn = "userData"
    /\ call.g[c].op = "SetUserData"
    /\ call.g[c].at = "locked"
    /\ call' = [call EXCEPT
                   !.userData[call.g[c].br] =
                       WithEntry(@, call.g[c].key, call.g[c].baton),
                   !.g[c].at = "defer"]
    /\ UNCHANGED <<rev, running, toggles, cache, requestData, writing,
                   crashed, sess, sid, pc, req, ctx, resp, task, saved,
                   events, hist>>

\* The body of DeleteUserData, under the write lock.
DeleteUserData(c) ==
    /\ call.fn = "userData"
    /\ call.g[c].op = "DeleteUserData"
    /\ call.g[c].at = "locked"
    /\ call' = [call EXCEPT
                   !.userData[call.g[c].br] = WithoutEntry(@, call.g[c].key),
                   !.g[c].at = "defer"]
    /\ UNCHANGED <<rev, running, toggles, cache, requestData, writing,
                   crashed, sess, sid, pc, req, ctx, resp, task, saved,
                   events, hist>>

\* The body of GetUserData, under the read lock.
GetUserData(c) ==
    /\ call.fn = "userData"
    /\ call.g[c].op = "GetUserData"
    /\ call.g[c].at = "locked"
    /\ call' = [call EXCEPT
                   !.g[c].i = Entry(call.userData[call.g[c].br], call.g[c].key),
                   !.g[c].b = Entry(call.userData[call.g[c].br],
                                    call.g[c].key) # <<>>,
                   !.g[c].at = "defer"]
    /\ UNCHANGED <<rev, running, toggles, cache, requestData, writing,
                   crashed, sess, sid, pc, req, ctx, resp, task, saved,
                   events, hist>>

\* defer br.userDataMutex.Unlock(): the write is complete.
Unlock(c) ==
    /\ call.fn = "userData"
    /\ call.g[c].op \in {"SetUserData", "DeleteUserData"}
    /\ call.g[c].at = "defer"
    /\ call' = [call EXCEPT
                   !.written[call.g[c].br][call.g[c].key] =
                       IF call.g[c].op = "SetUserData"
                       THEN <<call.g[c].baton>> ELSE <<>>,
                   !.g[c] = NoUserCall]
    /\ UNCHANGED <<rev, running, toggles, cache, requestData, writing,
                   crashed, sess, sid, pc, req, ctx, resp, task, saved,
                   events, hist>>

\* defer br.userDataMutex.RUnlock(): GetUserData returns (i, b).
RUnlock(c) ==
    /\ call.fn = "userData"
    /\ call.g[c].op = "GetUserData"
    /\ call.g[c].at = "defer"
    /\ call' = [call EXCEPT !.g[c] = NoUserCall]
    /\ UNCHANGED <<rev, running, toggles, cache, requestData, writing,
                   crashed, sess, sid, pc, req, ctx, resp, task, saved,
                   events, hist>>

-----------------------------------------------------------------------------
(* The response hooks called in another order *)

\* The response hooks the revision has (the early one has neither
\* SetupResponse nor Cleanup).
ResponseHooks ==
    IF rev = "early"
    THEN {"PostflightCorsSupport", "SaveStopLightRequest"}
    ELSE {"PostflightCorsSupport", "SetupResponse", "SaveStopLightRequest",
          "Cleanup"}

\* No response hook has been called out of turn yet.
NoHookCalls ==
    [fn |-> "hooks", done |-> FALSE, n |-> 0, hook |-> "none", Session |-> 0,
     absent |-> FALSE, given |-> NilResponse]

\* The engine calls a response hook of its choice next on the session of
\* slot s: the hooks are registered in another order, or one is called
\* again.  The call notes the response the hook is given and whether
\* requestData[ctx.Session] is nil at that moment.
CallResponseHook(s) ==
    /\ call.fn = "hooks"
    /\ ~crashed
    /\ call.n < MaxCalls
    /\ pc[s] \in ResponseHooks \cup {"done"}
    /\ \E hook \in ResponseHooks :
          /\ pc' = [pc EXCEPT ![s] = hook]
          /\ call' = [call EXCEPT !.n = @ + 1, !.hook = hook,
                                  !.Session = sid[s],
                                  !.absent = ~Present(s),
                                  !.given = resp[s]]
    /\ writing' = writing \ {s}
    /\ UNCHANGED <<rev, running, toggles, cache, requestData, crashed, sess,
                   sid, req, ctx, resp, task, saved, events, hist>>

-----------------------------------------------------------------------------
(* Specifications *)

\* Everything the pipeline of slot s and its goroutine can do next.
Pipeline(s) ==
    \/ MapWriteBegin(s)
    \/ SetupRequest(s)
    \/ PreflightCorsSupport(s)
    \/ CleanRequestEarly(s)
    \/ CleanRequest(s)
    \/ RoundTrip(s)
    \/ PostflightCorsSupportEarly(s)
    \/ PostflightCorsSupport(s)
    \/ SetupResponse(s)
    \/ SaveStopLightRequestEarly(s)
    \/ SaveStopLightRequestApi(s)
    \/ SaveStopLightRequest(s)
    \/ CleanupApi(s)
    \/ Cleanup(s)
    \/ TaskCreateEarly(s)
    \/ TaskCreateApi(s)
    \/ TaskCreate(s)
    \/ TaskBroadcast(s)
    \/ FatalHeaderRace(s)

\* One connection: the sessions follow one another on slot 1.
Next ==
    \/ ToggleRunning
    \/ Accept(1, Requests)
    \/ Pipeline(1)

Spec == Init /\ [][Next]_vars

\* Two connections: the pipelines of two sessions overlap.  The tenant store
\* stays as it is, with every environment running.
InitConcurrent ==
    /\ Init
    /\ running = [e \in EnvIds |-> TRUE]

NextConcurrent ==
    \E s \in Slots :
       \/ Accept(s, FewRequests)
       \/ Pipeline(s)
       \/ FatalConcurrentMapAccess(s)

SpecConcurrent == InitConcurrent /\ [][NextConcurrent]_vars

\* The helpers on their own: one call, of one helper, on one input, or a
\* few calls of the hooks that write the session store.
InitHelpers ==
    /\ Idle
    /\ running = [e \in EnvIds |-> TRUE]
    /\ \/ call \in UrlCalls
       \/ call \in SlugCalls
       \/ call \in ValidCalls
       \/ call \in TenantCalls
       \/ call \in PathCalls
       \/ call = NoStoreCalls

NextHelpers ==
    \/ CallUrlWithoutEnvironment
    \/ CallSlugFromUrl
    \/ CallIsValidResponse
    \/ CallGetTenant
    \/ CallCleanRequestPath
    \/ CallSetupRequest
    \/ CallCleanup

SpecHelpers == InitHelpers /\ [][NextHelpers]_vars

\* Two connections while the tenant store changes: one fetches through
\* environment a, the other sends the preflight of such a fetch.
Fetch == { Tls("GET", <<"/", "a", "/", "x">>, Empty, <<>>) }
Probe == { Tls("OPTIONS", <<"/", "a", "/", "x">>, Empty, <<>>) }

NextShared ==
    \/ ToggleRunning
    \/ Accept(1, Fetch)
    \/ Accept(2, Probe)
    \/ \E s \in Slots :
          \/ Pipeline(s)
          \/ FatalConcurrentMapAccess(s)

SpecShared == InitConcurrent /\ [][NextShared]_vars

\* One connection fetching through environment a, the store unchanged; the
\* Go scheduler runs every detached goroutine that can take its next step.
TaskStep(s) ==
    \/ TaskCreateEarly(s)
    \/ TaskCreateApi(s)
    \/ TaskCreate(s)
    \/ TaskBroadcast(s)

NextFair ==
    \/ Accept(1, Fetch)
    \/ Pipeline(1)

SpecFair == InitConcurrent /\ [][NextFair]_vars /\ WF_vars(TaskStep(1))

\* The user-data bags of the wrappers, used by a few goroutines.
InitUserData ==
    /\ Idle
    /\ running = [e \in EnvIds |-> TRUE]
    /\ call = NoUserData

NextUserData ==
    \E c \in Callers :
       \/ EnterUserData(c)
       \/ Lock(c)
       \/ RLock(c)
       \/ SetUserData(c)
       \/ DeleteUserData(c)
       \/ GetUserData(c)
       \/ Unlock(c)
       \/ RUnlock(c)

SpecUserData == InitUserData /\ [][NextUserData]_vars

\* One connection whose response hooks the engine calls in any order; the
\* detached goroutines are left out.
InitHooks ==
    /\ Idle
    /\ running = [e \in EnvIds |-> TRUE]
    /\ call = NoHookCalls

NextHooks ==
    \/ Accept(1, FewRequests)
    \/ MapWriteBegin(1)
    \/ SetupRequest(1)
    \/ PreflightCorsSupport(1)
    \/ CleanRequestEarly(1)
    \/ CleanRequest(1)
    \/ RoundTrip(1)
    \/ PostflightCorsSupportEarly(1)
    \/ PostflightCorsSupport(1)
    \/ SetupResponse(1)
    \/ SaveStopLightRequestEarly(1)
    \/ SaveStopLightRequestApi(1)
    \/ SaveStopLightRequest(1)
    \/ CleanupApi(1)
    \/ Cleanup(1)
    \/ CallResponseHook(1)

SpecHooks == InitHooks /\ [][NextHooks]_vars

-----------------------------------------------------------------------------
(* Properties *)

\* The sessions whose pipeline has passed CleanRequest.
Rewritten == {s \in Slots : hist[s].cleaned # <<>>}

\* ... and asked GetOrigin for the target on the way.
Retargeted == {s \in Rewritten : hist[s].origin # <<>>}

\* C1. Within one request every GetEnvironment call, whichever stage makes
\* it, returns the environment the first call returned, and a capture record
\* is attributed to the environment the request was rewritten with.
C1_EnvironmentStable ==
    \A s \in Slots :
       /\ Cardinality(hist[s].envSeen) <= 1
       /\ \A i \in DOMAIN saved[s] :
             (s \in Rewritten /\ task[s].noContext # True)
                => saved[s][i].Env = hist[s].cleaned[1].env.Slug

\* The stages that run between SetupRequest and the end of Cleanup.
Stages ==
    {"PreflightCorsSupport", "CleanRequest", "RoundTrip",
     "PostflightCorsSupport", "SetupResponse", "SaveStopLightRequest",
     "Cleanup"}

\* C2. A session's context is in the store from the end of SetupRequest
\* through the response stages, and is removed exactly once, after them.
C2_ContextLifetime ==
    \A s \in Slots :
       /\ pc[s] \in Stages => sid[s] \in requestData
       /\ pc[s] \in Stages \cup {"SetupRequest"} => hist[s].removed = 0
       /\ pc[s] = "done" => hist[s].removed = 1 /\ sid[s] \notin requestData

\* C3. No insert, lookup or delete of one in-flight request overlaps an
\* insert or delete of another: at most one pipeline is inside a write to the
\* session store, and no lookup runs during another pipeline's write.
C3_StoreMutualExclusion ==
    /\ Cardinality(writing) <= 1
    /\ \A s \in Slots : ~hist[s].overlapped

\* C4. With the tenant store unchanged, a capture record holds the request
\* headers and the api/project attribution that held when its task was
\* detached, whether the task ran before or after Cleanup.
C4_RecordIndependentOfCleanup ==
    \A s \in Slots : \A i \in DOMAIN saved[s] :
       (hist[s].detached # <<>> /\ hist[s].recorded # <<>>
        /\ hist[s].recorded[1].toggles = hist[s].detached[1].toggles)
          => /\ saved[s][i].Header = hist[s].detached[1].header
             /\ (hist[s].detached[1].tenant # <<>> /\ task[s].noContext # True)
                   => saved[s][i].Tenant = hist[s].detached[1].tenant[1].Id

\* C5. A session whose pipeline ran to completion has no entry in the
\* session store, and its entry was removed once; preflight sessions, absent
\* responses and a still running capture task make no difference.
C5_TeardownOnce ==
    \A s \in Slots :
       pc[s] = "done" => sid[s] \notin requestData /\ hist[s].removed = 1

\* The rows of the environments table that are running in store state run
\* and whose column (Slug or Url) holds value.
RunningRows(run, column, value) ==
    {i \in DOMAIN EnvTable :
        EnvTable[i][column] = value /\ run[EnvTable[i].Id]}

\* The first segment of a path: what stands between the leading "/" and the
\* next one.
FirstSegment(path) ==
    IF path = Empty THEN Empty
    ELSE Split(path)[IF path[1] = "/" THEN 2 ELSE 1]

\* Path first, host fallback: the running environment named by the first
\* path segment of url, else the one whose upstream is host, else none.
PathFirstHostFallback(url, host, run) ==
    IF RunningRows(run, "Slug", FirstSegment(url.Path)) # {}
    THEN First(RunningRows(run, "Slug", FirstSegment(url.Path)))
    ELSE First(RunningRows(run, "Url", host))

\* C6. GetEnvironment returns the running environment whose slug is the
\* first path segment of the request URI, else the running environment whose
\* host is the request's Host, else an empty environment; it never faults.
C6_PathFirstHostFallback ==
    \A s \in Slots :
       /\ pc[s] # "panic"
       /\ hist[s].resolved # <<>> =>
             hist[s].resolved[1].env =
                PathFirstHostFallback(hist[s].resolved[1].URL,
                                      hist[s].resolved[1].Host,
                                      hist[s].resolved[1].running)

\* C7. For one context the environment is resolved at most once and the
\* api/project is looked up at most once, however many stages ask.
C7_ResolvedOnce ==
    \A s \in Slots :
       /\ hist[s].envLookups <= 1
       /\ hist[s].tenantLookups <= 1

\* The target GetOrigin owes for override header value target, environment
\* env and the request's own URL url: the first of the three that is there.
ByPriority(o, target, env, url) ==
    IF target # Empty
    THEN ~o.u.IsNil /\ ~o.own /\ o.u.Scheme \o <<"://">> \o o.u.Host = target
    ELSE IF env.Id # Empty
    THEN /\ ~o.u.IsNil /\ ~o.own
         /\ o.u.Scheme = (IF env.Ssl THEN <<"https">> ELSE <<"http">>)
         /\ o.u.Host = env.Url
    ELSE o.own /\ o.u.Scheme = url.Scheme /\ o.u.Host = url.Host

\* C8. GetOrigin takes the target from the override header when the request
\* carries one, even with an environment resolved; else from the resolved
\* environment (https when Ssl, http when not); else it is the request's own
\* URL.
C8_OriginPriority ==
    \A s \in Retargeted :
       ByPriority(hist[s].origin[1],
                  Get(hist[s].origin[1].header, "X-StopLight-Url-Host"),
                  hist[s].cleaned[1].env,
                  hist[s].cleaned[1].before.URL)

\* C8, witness: CleanRequest asked GetOrigin for a request that carried the
\* override header and for which an environment is resolved.
C8_OverrideWithEnvironment ==
    \E s \in Retargeted :
       /\ Get(hist[s].origin[1].header, "X-StopLight-Url-Host") # Empty
       /\ hist[s].cleaned[1].env.Id # Empty
       /\ req[s].URL.Host = <<"o">>

\* The request before CleanRequest has path /slug/rest, slug naming a running
\* environment, and no override header.
UnderRunningSlug(x) ==
    /\ Len(x.before.URL.Path) > 2
    /\ x.before.URL.Path[1] = "/"
    /\ x.before.URL.Path[3] = "/"
    /\ RunningRows(x.running, "Slug", <<x.before.URL.Path[2]>>) # {}
    /\ Get(x.before.Header, "X-StopLight-Url-Host") = Empty

\* What C9 owes: the request r points at the upstream of env, its path is
\* the path before less the leading slug, its query is as before.
PointsAt(r, env, before) ==
    /\ r.URL.Scheme = (IF env.Ssl THEN <<"https">> ELSE <<"http">>)
    /\ r.URL.Host = env.Url
    /\ r.Host = env.Url
    /\ r.URL.Path = SubSeq(before.URL.Path, 3, Len(before.URL.Path))
    /\ r.URL.RawQuery = before.URL.RawQuery

\* C9. A request for /s/rest, s the slug of a running environment, without
\* override header, leaves CleanRequest with that environment's scheme and
\* host, Host header and path /rest, the query unchanged.
C9_RewriteUnderSlug ==
    \A s \in Rewritten :
       (pc[s] = "RoundTrip" /\ UnderRunningSlug(hist[s].cleaned[1]))
          => PointsAt(req[s],
                      First(RunningRows(hist[s].cleaned[1].running, "Slug",
                               <<hist[s].cleaned[1].before.URL.Path[2]>>)),
                      hist[s].cleaned[1].before)

\* C10. A request with no environment and no override header leaves
\* CleanRequest with scheme, URL host, Host and path as received.
C10_PassThrough ==
    \A s \in Rewritten :
       (/\ pc[s] = "RoundTrip"
        /\ hist[s].cleaned[1].env.Id = Empty
        /\ Get(hist[s].cleaned[1].before.Header, "X-StopLight-Url-Host") = Empty)
          => /\ req[s].URL.Scheme = hist[s].received.URL.Scheme
             /\ req[s].URL.Host = hist[s].received.URL.Host
             /\ req[s].Host = hist[s].received.Host
             /\ req[s].URL.Path = hist[s].received.URL.Path

\* C11. urlWithoutEnvironment maps s and /s to "/", s/x and /s/x to /x for
\* every slug s and every remainder x (a trailing slash of x is kept), with
\* or without a leading "/" on the input.
C11_StripsSlug ==
    (call.fn = "urlWithoutEnvironment" /\ call.done)
       => call.out = (IF call.bare THEN Slash ELSE Slash \o call.rest)

\* C11, for remainders that do not begin with "/" and for inputs with a
\* leading "/": s and /s give "/", s/x and /s/x give /x.  An input s/x
\* without leading "/" whose remainder x begins with "/" gives x itself.
C11_StripsSlugOfPath ==
    (call.fn = "urlWithoutEnvironment" /\ call.done)
       => call.out = (IF call.bare THEN Slash
                      ELSE IF ~call.leading /\ HasPrefix(call.rest, Slash)
                      THEN call.rest
                      ELSE Slash \o call.rest)

\* urlWithoutEnvironment was given s/x/ without a leading "/" and kept the
\* trailing slash.
C11_TrailingSlashKept ==
    /\ call.fn = "urlWithoutEnvironment"
    /\ call.done
    /\ ~call.leading
    /\ Len(call.rest) = 2
    /\ call.rest[1] # "/"
    /\ call.rest[2] = "/"
    /\ call.out = Slash \o call.rest

\* The text of s up to its first "/", all of s when it has none.
UpToSlash(s) ==
    IF Index(s, Slash) = 0 THEN s ELSE SubSeq(s, 1, Index(s, Slash) - 1)

\* C12. For a non-empty input slugFromUrl returns what stands between an
\* optional single leading "/" and the next "/" or the end of the input.
C12_SlugBetweenSlashes ==
    (call.fn = "slugFromUrl" /\ call.done)
       => call.out = UpToSlash(TrimPrefix(call.url, Slash))

\* slugFromUrl was given "/f.../..." and returned the non-empty "f...".
C12_SlugOfNestedPath ==
    /\ call.fn = "slugFromUrl"
    /\ call.done
    /\ call.url[1] = "/"
    /\ call.out # Empty
    /\ Len(call.url) > Len(call.out) + 1

\* The status is 304 or in the 2xx series.
BenignStatus(rs) == rs.StatusCode = 304 \/ rs.StatusCode \in 200..299

\* Accept + Content-Type mentions json or xml and does not mention html.
MentionsData(r, rs) ==
    /\ \/ Contains(Get(r.Header, "Accept") \o Get(rs.Header, "Content-Type"),
                   <<"json">>)
       \/ Contains(Get(r.Header, "Accept") \o Get(rs.Header, "Content-Type"),
                   <<"xml">>)
    /\ ~Contains(Get(r.Header, "Accept") \o Get(rs.Header, "Content-Type"),
                 <<"html">>)

\* isValidResponse was called on a present, unskipped wrapper whose request
\* has no ignore directive.
Judged ==
    /\ call.fn = "isValidResponse"
    /\ call.done
    /\ call.present
    /\ ~call.skip
    /\ Get(call.r.Header, "X-StopLight-Ignore") # True

\* C13. With a resolved tenant, no ignore and no force-capture directive,
\* isValidResponse is true exactly when the response is absent, or the
\* method is not GET, or X-Requested-With is set, or the status is neither
\* 304 nor 2xx, or Accept + Content-Type mentions json or xml and not html.
C13_RelevanceRule ==
    (/\ Judged
     /\ call.tenant # Empty
     /\ Get(call.r.Header, "X-StopLight-Dashboard") # True)
       => call.out = (\/ call.rs.IsNil
                      \/ call.r.Method # "GET"
                      \/ Get(call.r.Header, "X-Requested-With") # Empty
                      \/ ~BenignStatus(call.rs)
                      \/ MentionsData(call.r, call.rs))

\* C15. With the force-capture directive (X-StopLight-Dashboard: true), no
\* ignore directive and skip false, isValidResponse is true whatever the
\* method, status, content type and tenant.
C15_ForceCapture ==
    (Judged /\ Get(call.r.Header, "X-StopLight-Dashboard") = True)
       => call.out = TRUE

\* The capture stage of slot s has returned.
Captured == {s \in Slots : hist[s].returned # <<>>}

C16_AbsentResponseCaptured ==
    \A s \in Captured :
       (/\ hist[s].offered[1].IsNil
        /\ ~ctx[s].Skip
        /\ Get(hist[s].received.Header, "X-StopLight-Ignore") # True)
          => hist[s].detached # <<>>

\* C17. Given no response, the capture stage returns the 503 placeholder,
\* never nil.
C17_PlaceholderForAbsent ==
    \A s \in Captured :
       hist[s].offered[1].IsNil
          => /\ ~hist[s].returned[1].IsNil
             /\ hist[s].returned[1].StatusCode = 503

\* C18. A "request.create" broadcast carries a record that was stored
\* before; a failed Create is followed by no broadcast and no second Create:
\* at most one Create call and one broadcast for a captured exchange.
C18_BroadcastAfterPersist ==
    \A s \in Slots :
       /\ hist[s].creates <= 1
       /\ Len(saved[s]) <= hist[s].creates
       /\ Len(events[s]) <= Len(saved[s])
       /\ events[s] # <<>>
             => /\ events[s][1].event = "request.create"
                /\ events[s][1].data = saved[s][1]
       /\ task[s].state = "failed" => saved[s] = <<>> /\ events[s] = <<>>

\* A record was stored and then broadcast.
C18_Broadcast ==
    \E s \in Slots :
       /\ task[s].state = "done"
       /\ events[s] # <<>>
       /\ hist[s].creates = 1

Preflighted ==
    {s \in Slots : /\ hist[s].received.Method = "OPTIONS"
                   /\ pc[s] \notin {"idle", "SetupRequest",
                                    "PreflightCorsSupport", "panic"}}

\* C20. For an OPTIONS request, with or without a tenant, the preflight
\* hook answers 200 with the five Access-Control headers (Allow-Headers
\* echoing Access-Control-Request-Headers), sets Skip, and the request is
\* not sent upstream.
C20_PreflightAnswered ==
    \A s \in Preflighted :
       /\ ctx[s].Skip
       /\ ~hist[s].forwarded
       /\ hist[s].cleaned = <<>>
       /\ ~resp[s].IsNil
       /\ resp[s].StatusCode = 200
       /\ pc[s] = "PostflightCorsSupport"
             => /\ Get(resp[s].Header, "Access-Control-Allow-Credentials") = True
                /\ Get(resp[s].Header, "Access-Control-Allow-Headers")
                      = Get(hist[s].received.Header,
                            "Access-Control-Request-Headers")
                /\ Get(resp[s].Header, "Access-Control-Allow-Methods")
                      = allowedCorsMethods
                /\ Get(resp[s].Header, "Access-Control-Allow-Origin") = <<"*">>
                /\ Get(resp[s].Header, "Access-Control-Expose-Headers")
                      = <<"Content-Length">>

\* An OPTIONS request for which no environment resolves, asking for a
\* header, has been answered.
C20_PreflightWithoutTenant ==
    \E s \in Preflighted :
       /\ pc[s] = "PostflightCorsSupport"
       /\ Get(hist[s].received.Header, "Access-Control-Request-Headers") # Empty
       /\ hist[s].received.URL.Path = <<"/", "x">>

\* C21. Once a context's Skip flag is true, no later stage of that session
\* changes the response (no header added or changed) and no capture record
\* is built, persisted or broadcast for it.
C21_SkippedUntouched ==
    [][\A s \in Slots :
          (ctx[s].Skip /\ sid'[s] = sid[s])
             => /\ ctx'[s].Skip
                /\ resp'[s] = resp[s]
                /\ task'[s] = task[s]
                /\ saved'[s] = saved[s]
                /\ events'[s] = events[s]]_vars

\* A skipped session went through every response stage while its
\* environment resolved, and came out with the preflight answer.
C21_SkippedThroughStages ==
    \E s \in Preflighted :
       /\ pc[s] = "done"
       /\ ctx[s].Skip
       /\ hist[s].resolved # <<>>
       /\ hist[s].resolved[1].env.Slug # Empty
       /\ task[s].state = "none"

\* The four Allow-* headers both CORS stages write.
AllowNames ==
    {"Access-Control-Allow-Credentials", "Access-Control-Allow-Headers",
     "Access-Control-Allow-Methods", "Access-Control-Allow-Origin"}

\* The sessions of a non-OPTIONS request that just left the preflight hook.
AfterPreflight ==
    {s \in Slots : pc[s] = "CleanRequest" /\ hist[s].preflight # <<>>}

\* The sessions of a non-OPTIONS request whose upstream answer just left
\* the postflight hook.
AfterPostflight ==
    {s \in Slots : /\ hist[s].forwarded
                   /\ hist[s].preflight # <<>>
                   /\ ~resp[s].IsNil
                   /\ pc[s] = IF rev = "early" THEN "SaveStopLightRequest"
                                               ELSE "SetupResponse"}

\* C22. For a non-OPTIONS request: when no Environment is resolved neither
\* the outbound request nor the response gains an Access-Control-Allow-*
\* header; when one is resolved the outbound request gains the Allow-* set
\* and a present response gains the four Allow-* headers on the return leg.
C22_AllowHeadersFollowEnvironment ==
    /\ \A s \in AfterPreflight :
          IF hist[s].preflight[1].Slug = Empty
          THEN \A n \in AllowNames : req[s].Header[n] = NoHeader
          ELSE \A n \in AllowNames : req[s].Header[n] # NoHeader
    /\ \A s \in AfterPostflight :
          IF hist[s].preflight[1].Slug = Empty
          THEN \A n \in AllowNames : resp[s].Header[n] = NoHeader
          ELSE \A n \in AllowNames : resp[s].Header[n] # NoHeader

\* The calls made on the session store so far.
StoreCalls == IF call.fn = "requestData" THEN 1..Len(call.log) ELSE {}

\* C23. Removing a session identifier that is not in the session store is
\* a no-op: no error, every entry stays as it was; cleaning up twice for
\* one session leaves the store as cleaning up once.
C23_RemoveAbsentNoOp ==
    \A i \in StoreCalls :
       call.log[i].hook = "Cleanup" =>
          /\ ~call.log[i].failed
          /\ call.log[i].after[call.log[i].Session] = <<>>
          /\ \A other \in SessionIds \ {call.log[i].Session} :
                call.log[i].after[other] = call.log[i].before[other]
          /\ call.log[i].before[call.log[i].Session] = <<>>
                => call.log[i].after = call.log[i].before
          /\ DeleteEntry(call.log[i].after, call.log[i].Session)
                = call.log[i].after

\* Cleanup ran twice in a row for one session while another session had
\* its entry.
C23_CleanupTwice ==
    \E i \in StoreCalls :
       /\ i > 1
       /\ call.log[i].hook = "Cleanup"
       /\ call.log[i - 1].hook = "Cleanup"
       /\ call.log[i - 1].Session = call.log[i].Session
       /\ \E other \in SessionIds \ {call.log[i].Session} :
             call.log[i].before[other] # <<>>

\* C24. Creating a context for a session identifier already in the store
\* fails and the stored context is not replaced; creating one for an
\* identifier that is not in the store succeeds.
C24_CreateRefusesPresent ==
    \A i \in StoreCalls :
       call.log[i].hook = "SetupRequest" =>
          IF call.log[i].before[call.log[i].Session] # <<>>
          THEN /\ call.log[i].failed
               /\ call.log[i].after = call.log[i].before
          ELSE /\ ~call.log[i].failed
               /\ call.log[i].after[call.log[i].Session] # <<>>

\* The goroutines inside a user-data function of wrapper br, lock in hand.
InProgress(br, ops) ==
    {c \in Callers : /\ call.fn = "userData"
                     /\ call.g[c].br = br
                     /\ call.g[c].op \in ops
                     /\ call.g[c].at \in {"locked", "defer"}}

\* C26. On one wrapper a SetUserData or DeleteUserData never runs while
\* another Get/Set/DeleteUserData is in progress; a GetUserData returns
\* what the last completed write to its key left ((v, true) after
\* SetUserData(k, v)); a goroutine waiting for the lock of a wrapper on
\* which nothing is in progress is not held back by the other wrappers.
C26_UserDataSerialized ==
    call.fn = "userData" =>
       /\ \A br \in Wrappers :
             InProgress(br, {"SetUserData", "DeleteUserData"}) # {}
                => Cardinality(InProgress(br, {"SetUserData", "DeleteUserData",
                                               "GetUserData"})) = 1
       /\ \A c \in Callers :
             (call.g[c].op = "GetUserData" /\ call.g[c].at = "defer")
                => /\ call.g[c].i = call.written[call.g[c].br][call.g[c].key]
                   /\ call.g[c].b = (call.g[c].i # <<>>)
       /\ \A c \in Callers :
             (/\ call.g[c].at \in {"Lock", "RLock"}
              /\ \A d \in Callers \ {c} : call.g[d].br # call.g[c].br)
                => IF call.g[c].at = "Lock" THEN CanLock(call.g[c].br)
                                            ELSE CanRLock(call.g[c].br)

\* Two GetUserData calls are in progress on one wrapper, reading what a
\* completed SetUserData left.
C26_TwoReaders ==
    /\ call.fn = "userData"
    /\ \E br \in Wrappers :
          /\ Cardinality(InProgress(br, {"GetUserData"})) >= 2
          /\ \E c \in InProgress(br, {"GetUserData"}) :
                call.g[c].at = "defer" /\ call.g[c].b

\* What the tenant store in state run holds for a request with URL url,
\* asked by slug and then by host as GetEnvironment asks.
StoreAnswer(url, run) ==
    IF RunningRows(run, "Slug", slugFromUrl(RequestURI(url))) # {}
    THEN First(RunningRows(run, "Slug", slugFromUrl(RequestURI(url))))
    ELSE First(RunningRows(run, "Url", url.Host))

\* Session of slot t was created before that of slot s and is in flight.
Overlapping(s, t) ==
    /\ s # t
    /\ 0 < sid[t]
    /\ sid[t] < sid[s]
    /\ pc[t] \notin {"idle", "done", "panic"}

\* C25. Two wrappers created under different session ids and in flight
\* together do not observe each other: Skip is set on a wrapper only by its
\* own OPTIONS request, and the tenant a wrapper resolves first is the one
\* the store holds for its own request, whatever the other wrapper
\* resolved, set or removed.
C25_SessionsIsolated ==
    \A s \in Slots, t \in Slots :
       Overlapping(s, t) =>
          /\ ctx[s].Skip => hist[s].received.Method = "OPTIONS"
          /\ ctx[t].Skip => hist[t].received.Method = "OPTIONS"
          /\ (hist[s].resolved # <<>> /\ hist[s].envLookups = 1)
                => hist[s].resolved[1].env
                      = StoreAnswer(hist[s].resolved[1].URL,
                                    hist[s].resolved[1].running)

\* C27. An environment whose running flag is false in the tenant store when
\* a request is resolved is never returned by GetEnvironment, by the slug
\* lookup or by the host lookup, also when it was running at the time of
\* an earlier request.
C27_StoppedNeverReturned ==
    \A s \in Slots :
       (hist[s].resolved # <<>> /\ hist[s].resolved[1].env.Id # Empty)
          => hist[s].resolved[1].running[hist[s].resolved[1].env.Id]

\* The override header GetProject / GetApi reads.
TenantHeader == IF rev = "project" THEN "X-StopLight-Project"
                                   ELSE "X-StopLight-Api"

\* The project / api id the environment env is bound to.
BoundTo(env) == IF rev = "project" THEN env.ProjectId ELSE env.ApiId

\* The identifier the tenant of request r is to be resolved by: the
\* override header when present, else the id bound to its environment.
TenantIdentifier(r) ==
    IF Get(r.Header, TenantHeader) # Empty THEN Get(r.Header, TenantHeader)
    ELSE BoundTo(StoreAnswer(r.URL, running))

\* C28. The Project/API of a request is resolved by the override header
\* (X-StopLight-Project / X-StopLight-Api) whenever it is present, else by
\* the id bound to the resolved Environment; when both are empty the result
\* is an empty record and neither the cache nor the store is asked.
C28_OverrideHeaderFirst ==
    (call.fn = "GetTenant" /\ call.done /\ ~call.out[1].fault) =>
       /\ call.out[1].val = ApiWhereId(TenantIdentifier(call.r))
       /\ TenantIdentifier(call.r) = Empty
             => /\ call.out[1].val = EmptyApi
                /\ call.out[1].lookups = 0
                /\ \A key \in DOMAIN cache : cache[key].kind = "Environment"

\* The identifier by which the two functions resolve the tenant of request
\* r: GetProject by the override header when present, else by the id bound
\* to the environment; GetApi by the id bound to the environment when there
\* is one, else by the override header.
TenantIdentifierByKind(r) ==
    IF rev = "project" \/ BoundTo(StoreAnswer(r.URL, running)) = Empty
    THEN TenantIdentifier(r)
    ELSE BoundTo(StoreAnswer(r.URL, running))

\* C28, with the order of each function: GetProject resolves by the X-StopLight-Project header
\* whenever it is present, else by the Environment's project id; GetApi
\* resolves by the Environment's API id whenever there is one, else by the
\* X-StopLight-Api header; when both are empty the result is an empty
\* record and neither the cache nor the store is asked.  (A lookup that
\* panics on a cached record of another kind returns nothing: see C32.)
C28_IdentifierByKind ==
    (call.fn = "GetTenant" /\ call.done /\ ~call.out[1].fault) =>
       /\ call.out[1].val = ApiWhereId(TenantIdentifierByKind(call.r))
       /\ TenantIdentifierByKind(call.r) = Empty
             => /\ call.out[1].val = EmptyApi
                /\ call.out[1].lookups = 0
                /\ \A key \in DOMAIN cache : cache[key].kind = "Environment"

\* The tenant was resolved for a request whose override header names
\* another tenant than the one its environment is bound to.
C28_HeaderAgainstEnvironment ==
    /\ call.fn = "GetTenant"
    /\ call.done
    /\ Get(call.r.Header, TenantHeader) # Empty
    /\ BoundTo(StoreAnswer(call.r.URL, running)) # Empty
    /\ BoundTo(StoreAnswer(call.r.URL, running))
          # Get(call.r.Header, TenantHeader)
    /\ call.out[1].val.Id # Empty

\* C29. The candidate slug of the path lookup is taken from the path only:
\* for a request URI made of the path /s and a query string the slug is s,
\* so the running environment with slug s is resolved.
C29_SlugFromPathOnly ==
    \A s \in Slots :
       (/\ hist[s].resolved # <<>>
        /\ hist[s].resolved[1].URL.RawQuery # Empty
        /\ Len(hist[s].resolved[1].URL.Path) = 2
        /\ hist[s].resolved[1].URL.Path[1] = "/"
        /\ RunningRows(hist[s].resolved[1].running, "Slug",
                       Tail(hist[s].resolved[1].URL.Path)) # {})
          => hist[s].resolved[1].env.Slug = Tail(hist[s].resolved[1].URL.Path)

\* C30. Under fair scheduling of the detached capture task, every exchange
\* judged capturable eventually has its record passed to the persistence
\* collaborator, exactly once, also when Cleanup has removed the session's
\* context and returned before the task runs.
C30_RecordEventuallyCreated ==
    \A s \in {1} :
       /\ [](hist[s].creates <= 1)
       /\ (task[s].state = "spawned") ~> (hist[s].creates = 1)

\* Path begins with the segment slug: slug alone after the leading "/", or
\* slug followed by "/".
BeginsWithSegment(path, slug) ==
    /\ HasPrefix(TrimPrefix(path, Slash), slug)
    /\ \/ Len(TrimPrefix(path, Slash)) = Len(slug)
       \/ TrimPrefix(path, Slash)[Len(slug) + 1] = "/"

\* C31. urlWithoutEnvironment changes a path only by removing a leading
\* slug segment: a path that does not begin with the slug (after one
\* leading "/") is returned unchanged; the slug text later in the path or
\* inside a longer first segment is never removed.
C31_OnlyLeadingSegmentRemoved ==
    (call.fn = "CleanRequest" /\ call.done)
       => \/ BeginsWithSegment(call.path, call.slug)
          \/ call.out = call.path

\* C32. Every hit in the shared tenant cache yields a record of the kind
\* being looked up: no Environment lookup (by slug or host) and no
\* Project/API lookup (by id, also an id from an override header) hits an
\* entry a lookup of another kind stored under the same key, so no lookup
\* faults on a record of the wrong kind.
C32_HitsOfOwnKind ==
    (call.fn = "GetTenant" /\ call.done) => ~call.out[1].fault

\* C33. A lookup whose key the store does not contain leaves no entry in
\* the cache (so that the next lookup of the key consults the store again
\* and returns the record once it exists): the cache never holds the zero
\* value of a record.
C33_MissLeavesNoEntry ==
    \A key \in DOMAIN cache : cache[key].rec.Id # Empty

\* A response hook was called on slot s for a session without context, and
\* has returned or panicked.
CalledWithoutContext(s) ==
    /\ call.fn = "hooks"
    /\ call.absent
    /\ call.Session = sid[s]
    /\ pc[s] # call.hook

\* C34. A response hook (PostflightCorsSupport, SetupResponse,
\* SaveStopLightRequest, Cleanup) called for a session that has no context
\* in requestData does not panic and returns the response it was given, in
\* whatever order the hooks are called; so do the hooks that follow it.
C34_NoContextPassesThrough ==
    \A s \in Slots :
       CalledWithoutContext(s) => (pc[s] # "panic" /\ resp[s] = call.given)

=============================================================================
